---- MODULE Spec2Model ----
(***************************************************************************)
(* WP-Sitemap-architect: the site-structure reconciliation engine          *)
(* (services/geminiService.ts: fetchAllItems, rescueItem,                  *)
(* buildAndFlattenTree, analyzeSiteStructure) and the tree projection      *)
(* layer (utils/treeUtils.ts).                                             *)
(*                                                                         *)
(* These specifications share this module:                                 *)
(*   Spec      one run of analyzeSiteStructure                             *)
(*   SpecRescue  the rescue rounds with every fetch settling on its own    *)
(*   SpecFetch one call of fetchAllItems (pagination); SpecFetchLive adds  *)
(*             that every awaited request is answered                      *)
(*   SpecNet   one call of fetchWithFallback (transport chain)             *)
(*   SpecResolve  resolveParentId over the parent fields of a raw list     *)
(*   SpecTree  buildTreeFromPages and flattenTree over a heap of objects   *)
(*   SpecEdit  moveTreeNode and updateNodeDataInTree on a built tree       *)
(*   SpecApp   the App handlers that keep pages and treeData in step       *)
(*   SpecGraph the graph the App builds from the filtered page list        *)
(***************************************************************************)
EXTENDS Integers, Sequences, FiniteSets, TLC

VARIABLES
    \* ---- analyzeSiteStructure (Spec) ----
    config,              \* CrawlerConfig: includePages, includePosts
    pc,                  \* position in analyzeSiteStructure
    allItems,            \* let allItems: SitePage[]
    rescueIterations,    \* let rescueIterations
    hasNewRescuedItems,  \* let hasNewRescuedItems
    rescueLog,           \* history: the ids requested by each rescue round that fetched
    fetchLog,            \* history: every record requested, with the host it came with
    validItems,          \* const validItems (after the prune)
    sorted,              \* const sorted (the returned sequence)
    outcome,             \* "running", "returned", or the error thrown
    promises,            \* const promises of the rescue round being awaited (SpecRescue)
    events,              \* history: the rescue fetches issued and settled, the merges
    \* ---- fetchAllItems (SpecFetch) ----
    fpc,                 \* position in fetchAllItems
    fAllItems,           \* let allItems: any[]
    page,                \* let page
    hasMore,             \* let hasMore
    requests,            \* history: what each fetchWithFallback call returned
    \* ---- tree utilities (SpecTree, SpecEdit) ----
    heap,                \* the objects (nodes and arrays) allocated so far
    pages,               \* App state: pages (flat list, by value)
    treeData,            \* App state: treeData (reference to an array of the heap)
    lastCall,            \* history: the last utility call, its argument and result
    edits,               \* history: the number of edit calls made on treeData
    pageHistory,         \* the page_history rows saved by handleMove (latest last)
    \* ---- fetchWithFallback (SpecNet) ----
    netConfig,           \* CrawlerConfig: username, appPassword
    npc,                 \* position in fetchWithFallback
    attempts,            \* history: the fetch calls made, with what each was answered
    netResult            \* what the call returned or threw

crawlVars == <<config, pc, allItems, rescueIterations, hasNewRescuedItems,
               rescueLog, fetchLog, validItems, sorted, outcome, promises, events>>
fetchVars == <<fpc, fAllItems, page, hasMore, requests>>
treeVars  == <<heap, pages, treeData, lastCall, edits, pageHistory>>
netVars   == <<netConfig, npc, attempts, netResult>>
vars      == <<crawlVars, fetchVars, treeVars, netVars>>

----------------------------------------------------------------------------
(* Bounds of the model *)

MaxPages == 2      \* raw page records a pagination may deliver to one crawl
MaxPosts == 1      \* raw post records a pagination may deliver to one crawl
MaxTreePages == 3  \* pages of a flat list handed to the tree utilities
MaxEdits == 1      \* edit calls made on one tree

\* ids the site knows but the pages collection never lists
ExtIds == {98, 99}
\* those of them a listed page may name as its parent
PageExtIds == {99}
MenuOrders == {0, 1}
\* menu_order of a record the single-item endpoint delivers
RescueMenuOrders == {0}

----------------------------------------------------------------------------
(* JavaScript values *)

\* null of a `string | null` field; no String(...) of the model yields it
null == "<null>"

\* raw JSON values of the `parent` field
Num(n)    == [t |-> "number", n |-> n, s |-> ""]
Str(s)    == [t |-> "string", n |-> 0, s |-> s]
JsNull    == [t |-> "null", n |-> 0, s |-> ""]
JsUndef   == [t |-> "undefined", n |-> 0, s |-> ""]
JsFalse   == [t |-> "boolean", n |-> 0, s |-> ""]
JsTrue    == [t |-> "boolean", n |-> 1, s |-> ""]
\* the array [n] of one number
JsArray(n) == [t |-> "array", n |-> n, s |-> ""]

Digit == <<"0", "1", "2", "3", "4", "5", "6", "7", "8", "9">>

\* String(n) of a non-negative integer: its decimal digits
RECURSIVE StringOfNat(_)
StringOfNat(n) ==
    IF n < 10 THEN Digit[n + 1]
    ELSE StringOfNat(n \div 10) \o Digit[(n % 10) + 1]

\* a test that takes only the number 0 as "no parent"
OnlyZero(raw) == raw.t = "number" /\ raw.n = 0

\* !x of a raw value
Falsy(raw) ==
    \/ raw.t \in {"null", "undefined"}
    \/ raw.t = "boolean" /\ raw.n = 0
    \/ raw.t = "number" /\ raw.n = 0
    \/ raw.t = "string" /\ raw.s = ""

\* String(x) of a raw value
StringOf(raw) ==
    CASE raw.t = "number"    -> StringOfNat(raw.n)
      [] raw.t = "string"    -> raw.s
      [] raw.t = "boolean"   -> (IF raw.n = 0 THEN "false" ELSE "true")
      [] raw.t = "null"      -> "null"
      [] raw.t = "undefined" -> "undefined"
      [] raw.t = "array"     -> StringOfNat(raw.n)

resolveParentId(rawParent) ==
    IF Falsy(rawParent) THEN null
    ELSE IF StringOf(rawParent) = "0" THEN null
    ELSE StringOf(rawParent)

\* the host compared as it is
KeepWww(host) == host

\* hosts are sequences of labels: www.fme.de is <<"www", "fme", "de">>
StripWww(host) ==
    IF Len(host) > 1 /\ host[1] = "www" THEN Tail(host) ELSE host

\* an empty host stands for a missing or unparseable URL
isSameDomain(itemHost, baseHost) ==
    IF itemHost = <<>> \/ baseHost = <<>> THEN TRUE
    ELSE StripWww(itemHost) = StripWww(baseHost)

\* !item.parentId of a `string | null`
NoParent(parentId) == parentId = null \/ parentId = ""

----------------------------------------------------------------------------
(* analyzeSiteStructure: the data it works on *)

\* host of config.url
BaseHost == <<"www", "fme", "de">>

\* hosts an item's link may carry
Links == {<<"www", "fme", "de">>, <<"en", "fme", "de">>}

Titles == {"Home", "Blog"}

\* /blog|news|aktuelles/i.test(title), tabulated over the titles of the model
MatchesBlog(title) == title \in {"Blog", "News", "Aktuelles", "Our blog", "NEWS"}

\* the `parent` values a listed raw record may carry
RawParents ==
    {Num(0)} \cup {Num(k) : k \in (1..MaxPages) \cup PageExtIds}

\* the `parent` values a record of the single-item endpoint may carry
RescueParents == {Num(0)} \cup {Num(k) : k \in ExtIds}

\* one raw page record of the REST API (the fields analyzeSiteStructure reads)
RawPage(i, f) ==
    [id |-> i, title |-> f.title, parent |-> f.parent, link |-> f.link,
     menu_order |-> f.menu_order]

RawPageFields ==
    [title : Titles, parent : RawParents, link : Links, menu_order : MenuOrders]

\* a result of fetchAllItems for the pages endpoint: ids 1..n, each once
PagesData(n, f) == [i \in 1..n |-> RawPage(i, f[i])]

\* the raw pages of the end-to-end scenario: Home, About below Home, and a
\* page whose parent 99 is not listed
E2EPages ==
    <<RawPage(1, [title |-> "Home", parent |-> Num(0), link |-> BaseHost,
                  menu_order |-> 0]),
      RawPage(2, [title |-> "About", parent |-> Num(1), link |-> BaseHost,
                  menu_order |-> 0]),
      RawPage(3, [title |-> "Orphan", parent |-> Num(99), link |-> BaseHost,
                  menu_order |-> 0])>>

\* raw pages under the hosts fme.de, www.fme.de and en.fme.de
HostPages ==
    <<RawPage(1, [title |-> "Home", parent |-> Str("0"), link |-> <<"fme", "de">>,
                  menu_order |-> 0]),
      RawPage(2, [title |-> "About", parent |-> Num(1), link |-> BaseHost,
                  menu_order |-> 0]),
      RawPage(3, [title |-> "About us", parent |-> Num(1),
                  link |-> <<"en", "fme", "de">>, menu_order |-> 0])>>

\* a result of fetchAllItems for the posts endpoint: ids 11, 12, ...
PostsData(n, l) ==
    [i \in 1..n |->
        RawPage(10 + i, [title |-> "Post", parent |-> Num(0), link |-> l[i],
                         menu_order |-> 0])]

\* the value rescueItem returns for "no item"
NoItem ==
    [id |-> null, title |-> "", type |-> "none", parentId |-> null, url |-> <<>>,
     menuOrder |-> 0]

\* what the single-item endpoint may answer: a failure of fetchWithFallback,
\* or a record
RescueAnswers ==
    {[thrown |-> TRUE, parent |-> Num(0), link |-> <<>>, menu_order |-> 0]}
    \cup
    [thrown : {FALSE}, parent : RescueParents, link : Links,
     menu_order : RescueMenuOrders]

\* the number the site keeps for the id string of a request
NumberOf(id) == CHOOSE k \in (1..MaxPages) \cup ExtIds : StringOfNat(k) = id

\* the response to the single-item request for `id`
RescueResponse(id, a) ==
    [thrown |-> a.thrown,
     p |-> RawPage(NumberOf(id), [title |-> "", parent |-> a.parent,
                                  link |-> a.link, menu_order |-> a.menu_order])]

----------------------------------------------------------------------------
(* analyzeSiteStructure: its helpers *)

SeqMap(f(_), s) == [i \in 1..Len(s) |-> f(s[i])]

Ids(items) == {items[i].id : i \in 1..Len(items)}

\* the mapping of lines 217-226
MapPage(p) ==
    [id |-> StringOfNat(p.id),
     title |-> IF p.title = "" THEN "Ohne Titel" ELSE p.title,
     type |-> "page",
     parentId |-> resolveParentId(p.parent),
     url |-> p.link,
     menuOrder |-> p.menu_order]

\* lines 214-226: the domain filter, then the mapping
MapPages(pagesData) ==
    SeqMap(MapPage, SelectSeq(pagesData, LAMBDA p : isSameDomain(p.link, BaseHost)))

\* the mapping of lines 255-264
MapPost(p, blogParentId) ==
    [id |-> StringOfNat(p.id),
     title |-> IF p.title = "" THEN "Ohne Titel" ELSE p.title,
     type |-> "post",
     parentId |-> blogParentId,
     url |-> p.link,
     menuOrder |-> 0]

VirtualBlogRoot ==
    [id |-> "virtual-blog-root", title |-> "Blog / Beitraege", type |-> "custom",
     parentId |-> null, url |-> BaseHost, menuOrder |-> 9999]

\* a find that never matches
FindNoBlogPage(items, i) == 0

\* allItems.find(p => /blog|news|aktuelles/i.test(p.title)): its index, 0 if none
RECURSIVE FindBlogPage(_, _)
FindBlogPage(items, i) ==
    IF i > Len(items) THEN 0
    ELSE IF MatchesBlog(items[i].title) THEN i
    ELSE FindBlogPage(items, i + 1)

\* a placeholder returned for the id, whatever the request delivered
rescueItemGhost(id, resp) ==
    [id |-> id, title |-> "Rescued Parent " \o id, type |-> "ghost",
     parentId |-> null, url |-> BaseHost, menuOrder |-> 0]

\* rescueItem(baseUrl, id, config), lines 155-177
rescueItem(id, resp) ==
    IF resp.thrown \/ resp.p.id = 0 THEN NoItem
    ELSE [id |-> StringOfNat(resp.p.id),
          title |-> IF resp.p.title = "" THEN "Rescued Parent " \o id
                    ELSE resp.p.title,
          type |-> "page",
          parentId |-> resolveParentId(resp.p.parent),
          url |-> resp.p.link,
          menuOrder |-> resp.p.menu_order]

\* missingParentIds of lines 276-283, in the Set's insertion order
RECURSIVE MissingFrom(_, _, _)
MissingFrom(items, i, acc) ==
    IF i > Len(items) THEN acc
    ELSE LET pid == items[i].parentId
             seen == {acc[k] : k \in 1..Len(acc)}
         IN  IF ~NoParent(pid) /\ pid \notin Ids(items) /\ pid \notin seen
             THEN MissingFrom(items, i + 1, Append(acc, pid))
             ELSE MissingFrom(items, i + 1, acc)

MissingParentIds(items) == MissingFrom(items, 1, <<>>)

\* the filter of lines 292-295
ValidRescued(rescuedResults) ==
    SelectSeq(rescuedResults,
              LAMBDA i : i # NoItem /\ isSameDomain(i.url, BaseHost))

\* a prune that keeps only the items whose parent is in the working set
PruneAlsoRoots(items) ==
    SelectSeq(items, LAMBDA item : item.parentId \in Ids(items))

\* PruneOrphans with the prune left out
PruneNothing(items) == items

\* the filter of lines 311-323
PruneOrphans(items) ==
    SelectSeq(items,
              LAMBDA item : NoParent(item.parentId) \/ item.parentId \in Ids(items))

\* Array.prototype.sort with the comparator a - b on integer keys (stable): the
\* permutation it applies, as the sequence of source indices; index i goes
\* behind every index already placed whose key is not greater
RECURSIVE InsertIndex(_, _, _)
InsertIndex(keys, i, s) ==
    IF s = <<>> THEN <<i>>
    ELSE IF keys[s[Len(s)]] <= keys[i] THEN Append(s, i)
    ELSE Append(InsertIndex(keys, i, SubSeq(s, 1, Len(s) - 1)), s[Len(s)])

RECURSIVE SortFrom(_, _, _)
SortFrom(keys, i, acc) ==
    IF i > Len(keys) THEN acc
    ELSE SortFrom(keys, i + 1, InsertIndex(keys, i, acc))

StableOrder(keys) == SortFrom(keys, 1, <<>>)

\* the children in the order of the working set, not sorted
KeepAppendOrder(s) == s

\* .sort((a, b) => (a.menuOrder || 0) - (b.menuOrder || 0)) of line 187
SortByMenuOrder(s) ==
    LET order == StableOrder([i \in 1..Len(s) |-> s[i].menuOrder])
    IN  [i \in 1..Len(s) |-> s[order[i]]]

\* the visited guard of line 192
Visited(child, visited) == child.id \in visited

\* buildAndFlattenTree(items, parentId, visited): the sequence it returns and
\* the visited set as the call leaves it
RECURSIVE buildAndFlattenTree(_, _, _), FlattenChildren(_, _, _, _)
buildAndFlattenTree(items, parentId, visited) ==
    LET children ==
            SortByMenuOrder(SelectSeq(items, LAMBDA item : item.parentId = parentId))
    IN  FlattenChildren(items, children, 1, [result |-> <<>>, visited |-> visited])

FlattenChildren(items, children, k, acc) ==
    IF k > Len(children) THEN acc
    ELSE LET child == children[k]
         IN  IF Visited(child, acc.visited)
             THEN FlattenChildren(items, children, k + 1, acc)
             ELSE LET sub == buildAndFlattenTree(items, child.id,
                                                 acc.visited \cup {child.id})
                  IN  FlattenChildren(items, children, k + 1,
                          [result |-> (Append(acc.result, child)) \o sub.result,
                           visited |-> sub.visited])

\* Orphans without line 338: the orphans keep their parentId
OrphansKeepParent(items, flat) ==
    SelectSeq(items, LAMBDA i : i.id \notin Ids(flat))

\* lines 332-340: the items the traversal did not reach, forced to roots
Orphans(items, flat) ==
    SeqMap(LAMBDA o : [o EXCEPT !.parentId = null],
           SelectSeq(items, LAMBDA i : i.id \notin Ids(flat)))

\* SortAndFlatten that returns the pruned list as it is
ReturnUnflattened(items) == items

\* lines 328-343
SortAndFlatten(items) ==
    LET flat == buildAndFlattenTree(items, null, {}).result
    IN  flat \o Orphans(items, flat)

----------------------------------------------------------------------------
(* analyzeSiteStructure: one run *)

\* an entry of fetchLog: the id requested, the host of the record's link,
\* whether the request failed
Requested(id, host, failed) == [id |-> id, host |-> host, failed |-> failed]

\* the entries for the records of a collection request
Listed(data) ==
    [i \in 1..Len(data) |-> Requested(StringOfNat(data[i].id), data[i].link, FALSE)]

\* the variables of the other specifications, at rest
FetchIdle ==
    /\ fpc = "idle" /\ fAllItems = <<>> /\ page = 1 /\ hasMore = TRUE
    /\ requests = <<>>

TreeIdle ==
    /\ heap = [nodes |-> <<>>, arrays |-> <<>>] /\ pages = <<>> /\ treeData = 0
    /\ lastCall = [op |-> "none"]
    /\ edits = 0
    /\ pageHistory = <<>>

NetIdle ==
    /\ netConfig = [username |-> "", appPassword |-> ""]
    /\ npc = "idle" /\ attempts = <<>> /\ netResult = [kind |-> "none"]

CrawlIdle ==
    /\ config = [includePages |-> FALSE, includePosts |-> FALSE]
    /\ pc = "idle" /\ allItems = <<>> /\ rescueIterations = 0
    /\ hasNewRescuedItems = TRUE /\ rescueLog = <<>> /\ fetchLog = <<>>
    /\ validItems = <<>> /\ sorted = <<>> /\ outcome = "idle"
    /\ promises = <<>> /\ events = <<>>

Init ==
    /\ config \in [includePages : BOOLEAN, includePosts : BOOLEAN]
    /\ pc = "pages"
    /\ allItems = <<>>
    /\ rescueIterations = 0
    /\ hasNewRescuedItems = TRUE
    /\ rescueLog = <<>>
    /\ fetchLog = <<>>
    /\ validItems = <<>>
    /\ sorted = <<>>
    /\ outcome = "running"
    /\ promises = <<>>
    /\ events = <<>>
    /\ FetchIdle
    /\ NetIdle
    /\ TreeIdle

\* lines 209-228: fetchAllItems returned pagesData
FetchPages ==
    /\ pc = "pages"
    /\ IF config.includePages
       THEN \/ \E n \in 0..MaxPages : \E f \in [1..n -> RawPageFields] :
                   /\ allItems' = allItems \o MapPages(PagesData(n, f))
                   /\ fetchLog' = fetchLog \o Listed(PagesData(n, f))
            \/ \E pagesData \in {E2EPages, HostPages} :
                   /\ allItems' = allItems \o MapPages(pagesData)
                   /\ fetchLog' = fetchLog \o Listed(pagesData)
       ELSE UNCHANGED <<allItems, fetchLog>>
    /\ pc' = "posts"
    /\ UNCHANGED <<config, rescueIterations, hasNewRescuedItems, rescueLog,
                   validItems, sorted, outcome>>
    /\ UNCHANGED <<promises, events>>
    /\ UNCHANGED <<fetchVars, treeVars, netVars>>

\* lines 231-266: fetchAllItems returned postsData
FetchPosts ==
    /\ pc = "posts"
    /\ IF config.includePosts
       THEN \E n \in 0..MaxPosts : \E l \in [1..n -> Links] :
               LET postsData == PostsData(n, l)
                   filteredPosts ==
                       SelectSeq(postsData, LAMBDA p : isSameDomain(p.link, BaseHost))
                   blogIdx == FindBlogPage(allItems, 1)
                   blogPageId == IF blogIdx = 0 THEN null ELSE allItems[blogIdx].id
                   blogParentId ==
                       IF NoParent(blogPageId) THEN "virtual-blog-root" ELSE blogPageId
                   withRoot ==
                       IF NoParent(blogPageId) THEN Append(allItems, VirtualBlogRoot)
                       ELSE allItems
               IN  /\ allItems' =
                          IF Len(filteredPosts) > 0
                          THEN withRoot \o
                               SeqMap(LAMBDA p : MapPost(p, blogParentId), filteredPosts)
                          ELSE allItems
                   /\ fetchLog' = fetchLog \o Listed(postsData)
       ELSE UNCHANGED <<allItems, fetchLog>>
    /\ pc' = "rescue"
    /\ UNCHANGED <<config, rescueIterations, hasNewRescuedItems, rescueLog,
                   validItems, sorted, outcome>>
    /\ UNCHANGED <<promises, events>>
    /\ UNCHANGED <<fetchVars, treeVars, netVars>>

\* lines 145, 345-348: page 1 of a collection failed; the error is rethrown
FetchThrows ==
    /\ \/ pc = "pages" /\ config.includePages
       \/ pc = "posts" /\ config.includePosts
    /\ pc' = "done"
    /\ outcome' = "TransportExhausted"
    /\ UNCHANGED <<config, allItems, rescueIterations, hasNewRescuedItems,
                   rescueLog, fetchLog, validItems, sorted>>
    /\ UNCHANGED <<promises, events>>
    /\ UNCHANGED <<fetchVars, treeVars, netVars>>

\* a round counts as productive whatever it delivered
AlwaysNew(validRescued) == TRUE

\* line 297: validRescued.length > 0
MergedAny(validRescued) == Len(validRescued) > 0

\* the loop condition without its bound on the iterations
RescueWhileNew == hasNewRescuedItems

\* the loop condition of line 272
RescueLoopGuard == hasNewRescuedItems /\ rescueIterations < 2

\* lines 272-303: one iteration of the rescue loop; the fetches of the round are
\* issued together and Promise.all delivers their results in the order issued
RescueRound ==
    /\ pc = "rescue"
    /\ RescueLoopGuard
    /\ rescueIterations' = rescueIterations + 1
    /\ LET missing == MissingParentIds(allItems)
       IN  IF Len(missing) > 0
           THEN \E a \in [1..Len(missing) -> RescueAnswers] :
                   LET rescuedResults ==
                           [i \in 1..Len(missing) |->
                               rescueItem(missing[i], RescueResponse(missing[i], a[i]))]
                       validRescued == ValidRescued(rescuedResults)
                   IN  /\ allItems' = allItems \o validRescued
                       /\ hasNewRescuedItems' = MergedAny(validRescued)
                       /\ rescueLog' = Append(rescueLog, missing)
                       /\ fetchLog' = fetchLog \o
                              [i \in 1..Len(missing) |->
                                  Requested(missing[i], a[i].link, a[i].thrown)]
           ELSE /\ hasNewRescuedItems' = FALSE
                /\ UNCHANGED <<allItems, rescueLog, fetchLog>>
    /\ UNCHANGED <<config, pc, validItems, sorted, outcome>>
    /\ UNCHANGED <<promises, events>>
    /\ UNCHANGED <<fetchVars, treeVars, netVars>>

\* lines 305-343: the loop is left; the rest of the function runs without
\* suspending: the no-content check, the prune, the flatten, the orphan net
Finish ==
    /\ pc = "rescue"
    /\ ~RescueLoopGuard
    /\ pc' = "done"
    /\ IF Len(allItems) = 0
       THEN /\ outcome' = "NoContentFound"
            /\ UNCHANGED <<validItems, sorted>>
       ELSE /\ validItems' = PruneOrphans(allItems)
            /\ sorted' = SortAndFlatten(validItems')
            /\ outcome' = "returned"
    /\ UNCHANGED <<config, allItems, rescueIterations, hasNewRescuedItems,
                   rescueLog, fetchLog>>
    /\ UNCHANGED <<promises, events>>
    /\ UNCHANGED <<fetchVars, treeVars, netVars>>

Next ==
    \/ FetchPages
    \/ FetchPosts
    \/ FetchThrows
    \/ RescueRound
    \/ Finish

Spec == Init /\ [][Next]_vars

----------------------------------------------------------------------------
(* Claims about analyzeSiteStructure *)

Returned == pc = "done" /\ outcome = "returned"

\* the items of `items` that name a parent `items` does not hold
Dangling(items) ==
    {i \in 1..Len(items) :
        ~NoParent(items[i].parentId) /\ items[i].parentId \notin Ids(items)}

\* C1: every item of a returned sequence has parentId null or the id of an
\* item of the same sequence
C1_NoDanglingParent ==
    Returned =>
        \A i \in 1..Len(sorted) :
            sorted[i].parentId = null \/ sorted[i].parentId \in Ids(sorted)

\* a run that returned although the pruned list still named a pruned parent
\* (chain child -> parent -> missing): the orphan net acted
C1_Witness ==
    /\ Returned
    /\ Dangling(validItems) # {}
    /\ Len(sorted) = Len(validItems)
    /\ \E i \in 1..Len(allItems) : allItems[i].id \notin Ids(sorted)

\* the parentId of the item of `items` with this id
ParentIn(items, id) ==
    LET i == CHOOSE k \in 1..Len(items) : items[k].id = id
    IN  items[i].parentId

\* following parentId links from `pid` reaches null within `steps` steps
RECURSIVE ReachesRoot(_, _, _)
ReachesRoot(items, pid, steps) ==
    IF pid = null THEN TRUE
    ELSE IF steps = 0 \/ pid \notin Ids(items) THEN FALSE
    ELSE ReachesRoot(items, ParentIn(items, pid), steps - 1)

\* C2: in a returned sequence the parentId links lead from every item to a
\* root within |output| steps, and no id occurs twice: a forest
C2_Forest ==
    Returned =>
        /\ \A i \in 1..Len(sorted) :
               ReachesRoot(sorted, sorted[i].parentId, Len(sorted))
        /\ Cardinality(Ids(sorted)) = Len(sorted)

\* a run that returned from a working set whose parent references held a cycle
C2_Witness ==
    /\ Returned
    /\ \E i, j \in 1..Len(validItems) :
           /\ i # j
           /\ validItems[i].parentId = validItems[j].id
           /\ validItems[j].parentId = validItems[i].id
    /\ Len(sorted) >= 3

\* C3 as claimed: no run returns an empty sequence
C3_NeverReturnsEmpty == Returned => Len(sorted) > 0

\* the working set of the end-to-end scenario with no parent rescued
E2EItems == MapPages(E2EPages)

\* C4: pages {1, parent 0}, {2, parent 1}, {3, parent 99}, posts off, the
\* rescue of 99 failing: the run returns [1 (root), 2 (below 1)]
C4_EndToEnd ==
    pc = "done" /\ config = [includePages |-> TRUE, includePosts |-> FALSE]
                /\ allItems = E2EItems
    => /\ outcome = "returned"
       /\ Len(sorted) = 2
       /\ sorted[1].id = "1" /\ sorted[1].parentId = null
       /\ sorted[2].id = "2" /\ sorted[2].parentId = "1"
       /\ sorted = SubSeq(E2EItems, 1, 2)

\* the end-to-end scenario ran: 99 was requested once and never delivered
C4_Witness ==
    /\ pc = "done"
    /\ config = [includePages |-> TRUE, includePosts |-> FALSE]
    /\ allItems = E2EItems
    /\ rescueLog = << <<"99">> >>

\* C5: the rescue loop runs at most 2 rounds; what is still missing afterwards
\* is not fetched again, and the items naming it are pruned
C5_AtMostTwoRescueRounds ==
    /\ rescueIterations <= 2
    /\ Len(rescueLog) <= rescueIterations
    /\ Returned =>
           \A i \in Dangling(allItems) :
               \A k \in 1..Len(validItems) : validItems[k] # allItems[i]

\* round 2 delivered a parent, parents are still missing, and the loop ended
C5_Witness ==
    /\ Returned
    /\ rescueIterations = 2
    /\ Len(rescueLog) = 2
    /\ hasNewRescuedItems
    /\ Dangling(allItems) # {}

\* the hosts that equal the target host www.fme.de once a leading "www." is
\* removed from both
SameSite(host) == host \in {<<"fme", "de">>, <<"www", "fme", "de">>}

\* C17: a record delivered by pagination or by rescue enters the working set
\* exactly when its host is fme.de or www.fme.de (target www.fme.de), so a
\* record under en.fme.de never does; no item of the working set or of the
\* output has another host
C17_DomainFilter ==
    /\ \A i \in 1..Len(allItems) : SameSite(allItems[i].url)
    /\ \A i \in 1..Len(sorted) : SameSite(sorted[i].url)
    /\ \A k \in 1..Len(fetchLog) :
           ~fetchLog[k].failed =>
               IF SameSite(fetchLog[k].host)
               THEN fetchLog[k].id \in Ids(allItems)
               ELSE \/ fetchLog[k].id \notin Ids(allItems)
                    \/ \E j \in 1..Len(fetchLog) :
                           /\ fetchLog[j].id = fetchLog[k].id
                           /\ ~fetchLog[j].failed
                           /\ SameSite(fetchLog[j].host)

\* the crawl of pages under fme.de, www.fme.de and en.fme.de returned the
\* first two and not the third
C17_Witness ==
    /\ Returned
    /\ fetchLog = Listed(HostPages)
    /\ Ids(sorted) = {"1", "2"}
    /\ sorted[1].url = <<"fme", "de">>
    /\ sorted[2].url = <<"www", "fme", "de">>

\* the ids whose every single-item request failed
FailedIds ==
    {fetchLog[k].id : k \in {j \in 1..Len(fetchLog) : fetchLog[j].failed}}
        \ {fetchLog[k].id : k \in {j \in 1..Len(fetchLog) : ~fetchLog[j].failed}}

C20_PruneExact ==
    Returned =>
        /\ validItems =
               SelectSeq(allItems,
                         LAMBDA x : \/ x.parentId = null
                                    \/ \E j \in 1..Len(allItems) :
                                           allItems[j].id = x.parentId)
        /\ \A i \in 1..Len(allItems) :
               allItems[i].parentId = null => allItems[i].id \in Ids(validItems)

\* a prune that dropped an item and kept a root and an item below it
C20_Witness ==
    /\ Returned
    /\ \E i, j, k \in 1..Len(allItems) :
           /\ allItems[i].id \notin Ids(validItems)
           /\ allItems[j].parentId = null
           /\ allItems[k].parentId = allItems[j].id
           /\ {allItems[j].id, allItems[k].id} \subseteq Ids(validItems)

----------------------------------------------------------------------------
(* fetchAllItems: one call *)

MAX_PAGES == 30
PER_PAGE == 50

\* lengths of the arrays a page request may deliver
PageSizes == {0, 1, 20, 49, 50}

\* the j-th raw item of page p
RawItem(p, j) == <<p, j>>

\* what fetchWithFallback may deliver for a page request: it throws, or it
\* returns parsed JSON that is an array of n items or not an array
PageResponses ==
    [kind : {"array"}, n : PageSizes] \cup
    {[kind |-> "object", n |-> 0], [kind |-> "thrown", n |-> 0]}

\* the array of a response to the request for page p
DataOf(p, resp) == [j \in 1..resp.n |-> RawItem(p, j)]

\* the test of line 135 with the comparison dropped: no page is the last
NeverShort(data) == FALSE

\* line 135: data.length < PER_PAGE
IsShortPage(data) == Len(data) < PER_PAGE

\* the loop running for one page more than the ceiling
LoopPastCeiling == hasMore /\ page <= MAX_PAGES + 1

\* the loop condition of line 124
FetchLoopGuard == hasMore /\ page <= MAX_PAGES

\* every failed request rethrown, whatever the page
RethrowAlways == TRUE

\* line 145: if (page === 1) throw e
RethrowOnFirstPage == page = 1

InitFetch ==
    /\ fpc = "loop"
    /\ fAllItems = <<>>
    /\ page = 1
    /\ hasMore = TRUE
    /\ requests = <<>>
    /\ CrawlIdle
    /\ TreeIdle
    /\ NetIdle

\* lines 124-149: one iteration of the loop, the request for `page`
FetchPage ==
    /\ fpc = "loop"
    /\ FetchLoopGuard
    /\ \E resp \in PageResponses :
          /\ requests' = Append(requests, resp)
          /\ IF resp.kind = "thrown"
             THEN IF RethrowOnFirstPage
                  THEN fpc' = "thrown" /\ UNCHANGED <<fAllItems, page, hasMore>>
                  ELSE hasMore' = FALSE /\ UNCHANGED <<fpc, fAllItems, page>>
             ELSE LET data == DataOf(page, resp)
                  IN  IF resp.kind = "array" /\ Len(data) > 0
                      THEN /\ fAllItems' = fAllItems \o data
                           /\ IF IsShortPage(data)
                              THEN hasMore' = FALSE /\ page' = page
                              ELSE page' = page + 1 /\ hasMore' = hasMore
                           /\ fpc' = fpc
                      ELSE hasMore' = FALSE /\ UNCHANGED <<fpc, fAllItems, page>>
    /\ UNCHANGED <<crawlVars, treeVars, netVars>>

\* line 151
FetchReturn ==
    /\ fpc = "loop"
    /\ ~FetchLoopGuard
    /\ fpc' = "returned"
    /\ UNCHANGED <<fAllItems, page, hasMore, requests>>
    /\ UNCHANGED <<crawlVars, treeVars, netVars>>

NextFetch == FetchPage \/ FetchReturn

SpecFetch == InitFetch /\ [][NextFetch]_vars

\* every awaited request is answered and the code after it runs
SpecFetchLive == SpecFetch /\ WF_vars(NextFetch)

----------------------------------------------------------------------------
(* Claims about fetchAllItems *)

FullPage(resp) == resp.kind = "array" /\ resp.n = PER_PAGE

PartPage(resp) == resp.kind = "array" /\ 0 < resp.n /\ resp.n < PER_PAGE

\* the items of k - 1 full pages and one page of m items, in request order
ItemsInOrder(k, m) ==
    [i \in 1..(PER_PAGE * (k - 1) + m) |->
        RawItem(((i - 1) \div PER_PAGE) + 1, ((i - 1) % PER_PAGE) + 1)]

\* C10: a request is followed by another only if it delivered 50 items; after k - 1 full
\* pages and a page of m items (0 < m < 50) the call has made k requests and
\* returns the 50 * (k - 1) + m items in request order
C10_StopsAfterShortPage ==
    /\ \A i \in 1..(Len(requests) - 1) : FullPage(requests[i])
    /\ \A k \in 1..Len(requests) :
           (/\ fpc = "returned"
            /\ \A i \in 1..(k - 1) : FullPage(requests[i])
            /\ PartPage(requests[k]))
           => /\ Len(requests) = k
              /\ Len(fAllItems) = PER_PAGE * (k - 1) + requests[k].n
              /\ fAllItems = ItemsInOrder(k, requests[k].n)

\* the call that saw 50, 50 and 20 items returned 120 items after 3 requests
C10_Witness ==
    /\ fpc = "returned"
    /\ requests = <<[kind |-> "array", n |-> 50], [kind |-> "array", n |-> 50],
                    [kind |-> "array", n |-> 20]>>
    /\ Len(fAllItems) = 120

C12_FailureAfterFirstPageEndsPagination ==
    /\ fpc = "thrown" <=> Len(requests) = 1 /\ requests[1].kind = "thrown"
    /\ \A n \in 2..Len(requests) :
           requests[n].kind = "thrown" =>
               /\ Len(requests) = n
               /\ fpc \in {"loop", "returned"}
               /\ ~FetchLoopGuard
               /\ fAllItems = ItemsInOrder(n, 0)

\* the call whose third request failed returned the 100 items of pages 1, 2
C12_Witness ==
    /\ fpc = "returned"
    /\ Len(requests) = 3
    /\ requests[3].kind = "thrown"
    /\ Len(fAllItems) = 100

----------------------------------------------------------------------------
(* treeUtils.ts: objects *)

(* Nodes and arrays are objects with identity: heap.nodes[r] is the TreeNode   *)
(* with reference r, heap.arrays[a] the array with reference a, a sequence of  *)
(* node references. A node's children field holds an array reference, 0 for   *)
(* undefined. Optional fields of a page hold "undefined" when absent.         *)

EmptyHeap == [nodes |-> <<>>, arrays |-> <<>>]

Statuses == {"neutral", "move"}

\* a flat SitePage (the fields the tree utilities and their callers read)
Page(id, parentId, menuOrder) ==
    [id |-> id, parentId |-> parentId, menuOrder |-> menuOrder,
     status |-> "undefined", isOpen |-> "undefined"]

\* the indices 1..n that pass Test, ascending
SelectIdx(n, Test(_)) == SelectSeq([i \in 1..n |-> i], Test)

\* nodeMap.get(id) of line 23 over the nodes allocated from `base` on: the
\* node of the last page with that id, 0 if there is none
NodeMapGet(pgs, base, id) ==
    LET hits == SelectIdx(Len(pgs), LAMBDA i : pgs[i].id = id)
    IN  IF hits = <<>> THEN 0 ELSE base + hits[Len(hits)]

\* line 27
SafeParentId(pg) == IF pg.parentId = "0" THEN null ELSE pg.parentId

\* the test of line 29
HasParentNode(pgs, pg) ==
    /\ ~NoParent(SafeParentId(pg))
    /\ \E k \in 1..Len(pgs) : pgs[k].id = SafeParentId(pg)

\* step A left out: every array stays in the order of the pushes
LeaveChildrenUnsorted(h, a) == h

\* lines 38-45: sort the array in place, then the children of each of its nodes
RECURSIVE sortChildrenByMenuOrder(_, _), SortEach(_, _, _)
sortChildrenByMenuOrder(h, a) ==
    LET elems == h.arrays[a]
        order == StableOrder([i \in 1..Len(elems) |-> h.nodes[elems[i]].menuOrder])
        sortedRefs == [i \in 1..Len(elems) |-> elems[order[i]]]
    IN  SortEach([h EXCEPT !.arrays[a] = sortedRefs], sortedRefs, 1)

SortEach(h, refs, i) ==
    IF i > Len(refs) THEN h
    ELSE LET c == h.nodes[refs[i]].children
         IN  IF c # 0 /\ Len(h.arrays[c]) > 0
             THEN SortEach(sortChildrenByMenuOrder(h, c), refs, i + 1)
             ELSE SortEach(h, refs, i + 1)

\* lines 48-51
RECURSIVE getDescendantCount(_, _), CountFrom(_, _, _)
getDescendantCount(h, r) ==
    LET c == h.nodes[r].children
    IN  IF c = 0 \/ Len(h.arrays[c]) = 0 THEN 0 ELSE CountFrom(h, h.arrays[c], 1)

CountFrom(h, refs, i) ==
    IF i > Len(refs) THEN 0
    ELSE 1 + getDescendantCount(h, refs[i]) + CountFrom(h, refs, i + 1)

\* lines 59-63: the comparator countB - countA
SortRootsByDescendants(h, a) ==
    LET elems == h.arrays[a]
        order == StableOrder([i \in 1..Len(elems) |->
                                 0 - getDescendantCount(h, elems[i])])
    IN  [h EXCEPT !.arrays[a] = [i \in 1..Len(elems) |-> elems[order[i]]]]

\* buildTreeFromPages without step B: the roots stay in menuOrder order
KeepRootsInMenuOrder(h, a) == h

\* step B of buildTreeFromPages
SortRoots(h, a) == SortRootsByDescendants(h, a)

\* buildTreeFromPages(pages): the heap after the call and the array returned.
\* Page i gets the node nb + i and the children array ab + i; roots is the
\* array ab + n + 1.
buildTreeFromPages(h, pgs) ==
    LET n  == Len(pgs)
        nb == Len(h.nodes)
        ab == Len(h.arrays)
        node(i) == [id |-> pgs[i].id, parentId |-> pgs[i].parentId,
                    menuOrder |-> pgs[i].menuOrder, status |-> pgs[i].status,
                    isOpen |-> "false", children |-> ab + i]
        \* the pages pushed to the children of the node of page k (lines 29-31)
        pushedTo(k) ==
            IF NodeMapGet(pgs, nb, pgs[k].id) # nb + k THEN <<>>
            ELSE SelectIdx(n, LAMBDA i : /\ HasParentNode(pgs, pgs[i])
                                         /\ SafeParentId(pgs[i]) = pgs[k].id)
        rootIdx == SelectIdx(n, LAMBDA i : ~HasParentNode(pgs, pgs[i]))
        refs(idx) == [j \in 1..Len(idx) |-> NodeMapGet(pgs, nb, pgs[idx[j]].id)]
        h1 == [nodes  |-> h.nodes \o [i \in 1..n |-> node(i)],
               arrays |-> h.arrays \o [k \in 1..n |-> refs(pushedTo(k))]
                                   \o <<refs(rootIdx)>>]
        roots == ab + n + 1
    IN  [h |-> SortRoots(sortChildrenByMenuOrder(h1, roots), roots), ref |-> roots]

\* flattenTree(nodes, parentId), lines 113-134
RECURSIVE flattenTree(_, _, _), FlattenFrom(_, _, _, _)
flattenTree(h, a, parentId) == FlattenFrom(h, h.arrays[a], 1, parentId)

FlattenFrom(h, refs, i, parentId) ==
    IF i > Len(refs) THEN <<>>
    ELSE LET node == h.nodes[refs[i]]
             updatedPage ==
                 [id |-> node.id, parentId |-> parentId, menuOrder |-> i - 1,
                  status |-> node.status, isOpen |-> node.isOpen]
             below == IF node.children # 0 /\ Len(h.arrays[node.children]) > 0
                      THEN flattenTree(h, node.children, node.id)
                      ELSE <<>>
         IN  (<<updatedPage>> \o below) \o FlattenFrom(h, refs, i + 1, parentId)

----------------------------------------------------------------------------
(* buildTreeFromPages and flattenTree over any flat list *)

\* values of parentId in a list of n pages: none, the "0" of line 27, the id of
\* a page of the list, an id the list does not hold
TreeParents(n) == {null, "0", "9"} \cup {StringOfNat(j) : j \in 1..n}

\* the flat lists of n pages with the ids 1..n
TreeLists(n) ==
    {[i \in 1..n |-> Page(StringOfNat(i), f[i].parentId, f[i].menuOrder)] :
        f \in [1..n -> [parentId : TreeParents(n), menuOrder : MenuOrders]]}

InitTree ==
    /\ heap = EmptyHeap
    /\ \E n \in 0..MaxTreePages : pages \in TreeLists(n)
    /\ treeData = 0
    /\ lastCall = [op |-> "none"]
    /\ edits = 0
    /\ pageHistory = <<>>
    /\ CrawlIdle
    /\ FetchIdle
    /\ NetIdle

\* treeData = buildTreeFromPages(pages)
BuildTree ==
    /\ treeData = 0
    /\ LET b == buildTreeFromPages(heap, pages)
       IN  heap' = b.h /\ treeData' = b.ref
    /\ lastCall' = [op |-> "build"]
    /\ UNCHANGED <<pages, edits, pageHistory>>
    /\ UNCHANGED <<crawlVars, fetchVars, netVars>>

\* flattenTree(treeData)
FlattenTree ==
    /\ treeData # 0
    /\ lastCall.op = "build"
    /\ lastCall' = [op |-> "flatten", input |-> pages,
                    flat |-> flattenTree(heap, treeData, null)]
    /\ UNCHANGED <<heap, pages, treeData, edits, pageHistory>>
    /\ UNCHANGED <<crawlVars, fetchVars, netVars>>

NextTree == BuildTree \/ FlattenTree

SpecTree == InitTree /\ [][NextTree]_vars

----------------------------------------------------------------------------
(* Claims about buildTreeFromPages and flattenTree *)

IndexIn(items, id) == CHOOSE k \in 1..Len(items) : items[k].id = id

\* the parent a page of the list P has in the tree: none when its parentId is
\* null, empty, "0" or not an id of P
EffParent(P, id) ==
    LET pid == ParentIn(P, id)
    IN  IF NoParent(pid) \/ pid = "0" \/ pid \notin Ids(P) THEN null ELSE pid

\* `anc` is `id` or lies on the parent chain of `id`, within `steps` links
RECURSIVE OnChain(_, _, _, _)
OnChain(P, id, anc, steps) ==
    IF id = anc THEN TRUE
    ELSE IF steps = 0 \/ id = null THEN FALSE
    ELSE OnChain(P, EffParent(P, id), anc, steps - 1)

\* the parent chain of `id` ends at a root (`id` is not on or below a cycle)
Attached(P, id) == OnChain(P, id, null, Len(P))

DescendantIds(P, id) == {x \in Ids(P) \ {id} : OnChain(P, x, id, Len(P))}

\* <<a1, a2, a3>> before <<b1, b2, b3>> in lexicographic order
LexLess(a, b) ==
    \/ a[1] < b[1]
    \/ a[1] = b[1] /\ a[2] < b[2]
    \/ a[1] = b[1] /\ a[2] = b[2] /\ a[3] < b[3]

NoRepeat(items) == Cardinality(Ids(items)) = Len(items)

\* C6 as claimed: the round trip keeps exactly the ids, every parentId, and the
\* menuOrder order of any two siblings, roots included
C6_RoundTripAsClaimed ==
    lastCall.op = "flatten" =>
        LET P == lastCall.input
            R == lastCall.flat
        IN  /\ NoRepeat(R) /\ Ids(R) = Ids(P)
            /\ \A i \in 1..Len(R) : R[i].parentId = ParentIn(P, R[i].id)
            /\ \A i, j \in 1..Len(R) :
                   i < j /\ R[i].parentId = R[j].parentId =>
                       P[IndexIn(P, R[i].id)].menuOrder
                           <= P[IndexIn(P, R[j].id)].menuOrder

\* C6 (amended): the round trip keeps, once each, the ids whose parent chain
\* ends at a root; each gets the parent it has in the tree; siblings below a
\* node are in menuOrder order, ties in list order; the roots are ordered by
\* descendant count descending, then menuOrder, then list order
C6_RoundTrip ==
    lastCall.op = "flatten" =>
        LET P == lastCall.input
            R == lastCall.flat
            mo(x) == P[IndexIn(P, x.id)].menuOrder
            at(x) == IndexIn(P, x.id)
            desc(x) == Cardinality(DescendantIds(P, x.id))
        IN  /\ NoRepeat(R)
            /\ Ids(R) = {id \in Ids(P) : Attached(P, id)}
            /\ \A i \in 1..Len(R) : R[i].parentId = EffParent(P, R[i].id)
            /\ \A i, j \in 1..Len(R) :
                   i < j /\ R[i].parentId = R[j].parentId =>
                       IF R[i].parentId = null
                       THEN LexLess(<<0 - desc(R[i]), mo(R[i]), at(R[i])>>,
                                    <<0 - desc(R[j]), mo(R[j]), at(R[j])>>)
                       ELSE LexLess(<<0, mo(R[i]), at(R[i])>>,
                                    <<0, mo(R[j]), at(R[j])>>)

\* a round trip of a list without dangling, "0" or cyclic parents in which a
\* root with the greater menuOrder comes first, because it has more descendants
C6_Witness ==
    /\ lastCall.op = "flatten"
    /\ LET P == lastCall.input
           R == lastCall.flat
       IN  /\ Len(R) = Len(P)
           /\ \A i \in 1..Len(P) : P[i].parentId = EffParent(P, P[i].id)
           /\ \E i, j \in 1..Len(R) :
                  /\ i < j
                  /\ R[i].parentId = null /\ R[j].parentId = null
                  /\ P[IndexIn(P, R[i].id)].menuOrder
                         > P[IndexIn(P, R[j].id)].menuOrder

----------------------------------------------------------------------------
(* treeUtils.ts: moveTreeNode and updateNodeDataInTree *)

\* a new object holding `node`: the heap after the allocation and its reference
AllocNode(h, node) ==
    [h |-> [h EXCEPT !.nodes = Append(@, node)], ref |-> Len(h.nodes) + 1]

\* node.children && node.children.length > 0
HasChildren(h, node) == node.children # 0 /\ Len(h.arrays[node.children]) > 0

\* JSON.parse(JSON.stringify(data)) of line 142: every array and every node
\* below `a` is allocated anew with the same field values
RECURSIVE DeepCopy(_, _), CopyNodes(_, _, _, _)
DeepCopy(h, a) ==
    LET c == CopyNodes(h, h.arrays[a], 1, <<>>)
    IN  [h   |-> [c.h EXCEPT !.arrays = Append(@, c.refs)],
         ref |-> Len(c.h.arrays) + 1]

CopyNodes(h, refs, i, acc) ==
    IF i > Len(refs) THEN [h |-> h, refs |-> acc]
    ELSE LET node == h.nodes[refs[i]]
             sub  == IF node.children = 0 THEN [h |-> h, ref |-> 0]
                     ELSE DeepCopy(h, node.children)
             made == AllocNode(sub.h, [node EXCEPT !.children = sub.ref])
         IN  CopyNodes(made.h, refs, i + 1, Append(acc, made.ref))

\* moveTreeNode working on its argument itself
NoCopy(h, a) == [h |-> h, ref |-> a]

\* const newData = ... of line 142
CopyForMove(h, a) == DeepCopy(h, a)

\* arr.splice(i, 1)
SpliceOut(arr, i) == SubSeq(arr, 1, i - 1) \o SubSeq(arr, i + 1, Len(arr))

\* arr.splice(index, 0, x): the start is clamped to 0..arr.length, a negative
\* start counts from the end
SpliceIn(arr, index, x) ==
    LET len   == Len(arr)
        start == IF index < 0
                 THEN (IF len + index < 0 THEN 0 ELSE len + index)
                 ELSE (IF index > len THEN len ELSE index)
    IN  SubSeq(arr, 1, start) \o <<x>> \o SubSeq(arr, start + 1, len)

\* removeNode of lines 147-159 on the array a: the heap after it and the
\* draggedNode it set (0 for null)
RECURSIVE removeNode(_, _, _), RemoveFrom(_, _, _, _)
removeNode(h, a, dragId) == RemoveFrom(h, a, 1, dragId)

RemoveFrom(h, a, i, dragId) ==
    LET refs == h.arrays[a]
    IN  IF i > Len(refs) THEN [h |-> h, draggedNode |-> 0]
        ELSE LET node == h.nodes[refs[i]]
             IN  IF node.id = dragId
                 THEN [h |-> [h EXCEPT !.arrays[a] = SpliceOut(refs, i)],
                       draggedNode |-> refs[i]]
                 ELSE LET sub == IF HasChildren(h, node)
                                 THEN removeNode(h, node.children, dragId)
                                 ELSE [h |-> h, draggedNode |-> 0]
                      IN  IF sub.draggedNode # 0 THEN sub
                          ELSE RemoveFrom(h, a, i + 1, dragId)

\* insertIntoParent of lines 173-182 on the array a: the heap after it and
\* whether the parent was found
RECURSIVE insertIntoParent(_, _, _, _, _), InsertFrom(_, _, _, _, _, _)
insertIntoParent(h, a, parentId, index, draggedNode) ==
    InsertFrom(h, h.arrays[a], 1, parentId, index, draggedNode)

InsertFrom(h, refs, i, parentId, index, draggedNode) ==
    IF i > Len(refs) THEN [h |-> h, done |-> FALSE]
    ELSE LET r    == refs[i]
             node == h.nodes[r]
         IN  IF node.id = parentId
             THEN IF node.children = 0
                  THEN [h |-> [nodes  |-> [h.nodes EXCEPT ![r].children =
                                              Len(h.arrays) + 1],
                               arrays |-> Append(h.arrays, <<draggedNode>>)],
                        done |-> TRUE]
                  ELSE [h |-> [h EXCEPT !.arrays[node.children] =
                                   SpliceIn(@, index, draggedNode)],
                        done |-> TRUE]
             ELSE LET sub == IF node.children # 0
                             THEN insertIntoParent(h, node.children, parentId,
                                                   index, draggedNode)
                             ELSE [h |-> h, done |-> FALSE]
                  IN  IF sub.done THEN sub
                      ELSE InsertFrom(h, refs, i + 1, parentId, index, draggedNode)

\* moveTreeNode(data, [dragId], parentId, index), lines 140-188: the heap after
\* the call and the array returned
moveTreeNode(h, data, dragId, parentId, index) ==
    LET copy    == CopyForMove(h, data)
        newData == copy.ref
        removed == removeNode(copy.h, newData, dragId)
        dragged == removed.draggedNode
        h1      == [removed.h EXCEPT !.nodes[dragged].parentId = parentId]
    IN  IF dragged = 0 THEN [h |-> removed.h, ref |-> data]
        ELSE IF parentId = null
        THEN [h   |-> [h1 EXCEPT !.arrays[newData] = SpliceIn(@, index, dragged)],
              ref |-> newData]
        ELSE [h   |-> insertIntoParent(h1, newData, parentId, index, dragged).h,
              ref |-> newData]

\* { ...node, ...updates }
MergeUpdates(node, updates) ==
    [f \in DOMAIN node |-> IF f \in DOMAIN updates THEN updates[f] ELSE node[f]]

\* a copy of the node where line 106 returns the node
CopiedNode(h, r) == AllocNode(h, h.nodes[r])

\* return node, line 106
UnchangedNode(h, r) == [h |-> h, ref |-> r]

\* updateNodeDataInTree(nodes, nodeId, updates), lines 93-108: the heap after
\* the call and the array returned by nodes.map
RECURSIVE updateNodeDataInTree(_, _, _, _), UpdateFrom(_, _, _, _, _, _)
updateNodeDataInTree(h, a, nodeId, updates) ==
    LET u == UpdateFrom(h, h.arrays[a], 1, nodeId, updates, <<>>)
    IN  [h   |-> [u.h EXCEPT !.arrays = Append(@, u.refs)],
         ref |-> Len(u.h.arrays) + 1]

UpdateFrom(h, refs, i, nodeId, updates, acc) ==
    IF i > Len(refs) THEN [h |-> h, refs |-> acc]
    ELSE LET r    == refs[i]
             node == h.nodes[r]
             res  == IF node.id = nodeId
                     THEN AllocNode(h, MergeUpdates(node, updates))
                     ELSE IF HasChildren(h, node)
                     THEN LET sub == updateNodeDataInTree(h, node.children,
                                                          nodeId, updates)
                          IN  AllocNode(sub.h, [node EXCEPT !.children = sub.ref])
                     ELSE UnchangedNode(h, r)
         IN  UpdateFrom(res.h, refs, i + 1, nodeId, updates, Append(acc, res.ref))

----------------------------------------------------------------------------
(* moveTreeNode and updateNodeDataInTree on the tree of a loaded crawl *)

\* the forest below the array a by value: nesting, sibling order, field values
RECURSIVE ValueOf(_, _)
ValueOf(h, a) ==
    IF a = 0 THEN [defined |-> FALSE, items |-> <<>>]
    ELSE [defined |-> TRUE,
          items   |-> [i \in 1..Len(h.arrays[a]) |->
                          [h.nodes[h.arrays[a][i]] EXCEPT
                              !.children = ValueOf(h, @)]]]

\* the flat lists of n pages a crawl delivers: every parent is an earlier page
EditLists(n) ==
    {[i \in 1..n |-> Page(StringOfNat(i),
                          IF f[i] = 0 THEN null ELSE StringOfNat(f[i]), 0)] :
        f \in {g \in [1..n -> 0..n] : \A i \in 1..n : g[i] < i}}

\* ids handed to the edit calls: those of the pages and one that no page has
EditIds == {StringOfNat(j) : j \in 1..MaxTreePages} \cup {"9"}

\* drop indices handed to moveTreeNode
Indices == {0, 1}

\* Partial<SitePage> values handed to updateNodeDataInTree
Updates == {[status |-> st] : st \in Statuses}

InitEdit ==
    /\ heap = EmptyHeap
    /\ \E n \in 0..MaxTreePages : pages \in EditLists(n)
    /\ treeData = 0
    /\ lastCall = [op |-> "none"]
    /\ edits = 0
    /\ pageHistory = <<>>
    /\ CrawlIdle
    /\ FetchIdle
    /\ NetIdle

\* treeData = moveTreeNode(treeData, [dragId], parentId, index)
MoveTreeNode ==
    /\ treeData # 0
    /\ edits < MaxEdits
    /\ \E dragId \in EditIds, parentId \in {null} \cup EditIds, index \in Indices :
           LET moved == moveTreeNode(heap, treeData, dragId, parentId, index)
           IN  /\ heap' = moved.h
               /\ treeData' = moved.ref
               /\ lastCall' = [op |-> "move", data |-> treeData,
                               before |-> ValueOf(heap, treeData),
                               dragId |-> dragId, parentId |-> parentId,
                               index |-> index, result |-> moved.ref]
    /\ edits' = edits + 1
    /\ UNCHANGED <<pages, pageHistory>>
    /\ UNCHANGED <<crawlVars, fetchVars, netVars>>

\* treeData = updateNodeDataInTree(treeData, nodeId, updates)
UpdateNodeDataInTree ==
    /\ treeData # 0
    /\ edits < MaxEdits
    /\ \E nodeId \in EditIds, updates \in Updates :
           LET updated == updateNodeDataInTree(heap, treeData, nodeId, updates)
           IN  /\ heap' = updated.h
               /\ treeData' = updated.ref
               /\ lastCall' = [op |-> "update", data |-> treeData,
                               before |-> ValueOf(heap, treeData),
                               nodeId |-> nodeId, updates |-> updates,
                               result |-> updated.ref]
    /\ edits' = edits + 1
    /\ UNCHANGED <<pages, pageHistory>>
    /\ UNCHANGED <<crawlVars, fetchVars, netVars>>

NextEdit == BuildTree \/ MoveTreeNode \/ UpdateNodeDataInTree

SpecEdit == InitEdit /\ [][NextEdit]_vars

----------------------------------------------------------------------------
(* Claims about moveTreeNode and updateNodeDataInTree *)

\* the nodes of a forest value in pre-order, each with the id of its parent
RECURSIVE Entries(_, _, _)
Entries(items, i, parent) ==
    IF i > Len(items) THEN <<>>
    ELSE (<<[node |-> items[i], parent |-> parent]>>
             \o Entries(items[i].children.items, 1, items[i].id))
         \o Entries(items, i + 1, parent)

\* ids, nesting and sibling order of a forest value
RECURSIVE ShapeOf(_)
ShapeOf(items) ==
    [i \in 1..Len(items) |->
        [id |-> items[i].id, children |-> ShapeOf(items[i].children.items)]]

\* ids, nesting, sibling order and isOpen flags of a forest value
RECURSIVE OpenShapeOf(_)
OpenShapeOf(items) ==
    [i \in 1..Len(items) |->
        [id |-> items[i].id, isOpen |-> items[i].isOpen,
         children |-> OpenShapeOf(items[i].children.items)]]

HoldsId(items, id) ==
    \E k \in DOMAIN Entries(items, 1, null) : Entries(items, 1, null)[k].node.id = id

\* C7: when the dragged node n and the target parent p (or null) are in the
\* forest, the forest returned by moveTreeNode holds n as a child of p, with
\* the subtree it had below it before the move
C7_MovePreservesSubtree ==
    lastCall.op = "move" =>
        LET B == Entries(lastCall.before.items, 1, null)
            R == Entries(ValueOf(heap, lastCall.result).items, 1, null)
            n == lastCall.dragId
            p == lastCall.parentId
        IN  (/\ HoldsId(lastCall.before.items, n)
             /\ p = null \/ HoldsId(lastCall.before.items, p))
            => \E k \in DOMAIN R, b \in DOMAIN B :
                   /\ R[k].node.id = n
                   /\ R[k].parent = p
                   /\ B[b].node.id = n
                   /\ ShapeOf(R[k].node.children.items)
                          = ShapeOf(B[b].node.children.items)

\* C8: after a call of moveTreeNode the forest passed in has the nodes,
\* nesting, sibling order and field values it had before the call
C8_MoveKeepsInput ==
    lastCall.op = "move" => ValueOf(heap, lastCall.data) = lastCall.before

\* a call that found the dragged node and returned a forest that differs from
\* the one passed in
C8_Witness ==
    /\ lastCall.op = "move"
    /\ HoldsId(lastCall.before.items, lastCall.dragId)
    /\ lastCall.result # lastCall.data
    /\ ValueOf(heap, lastCall.result) # lastCall.before

\* the nodes below the array a in pre-order: the reference of each and the ids
\* of its ancestors
RECURSIVE RefEntries(_, _, _, _)
RefEntries(h, refs, i, above) ==
    IF i > Len(refs) THEN <<>>
    ELSE LET node == h.nodes[refs[i]]
         IN  (<<[ref |-> refs[i], above |-> above]>>
                 \o (IF node.children = 0 THEN <<>>
                     ELSE RefEntries(h, h.arrays[node.children], 1,
                                     above \cup {node.id})))
             \o RefEntries(h, refs, i + 1, above)

RefsBelow(h, a) == RefEntries(h, h.arrays[a], 1, {})

\* the fields of a node other than its children
FieldsOf(node) == [f \in DOMAIN node \ {"children"} |-> node[f]]

\* C9 as claimed: the forest returned by updateNodeDataInTree has the shape of
\* the input, the node nodeId has the updated fields, and every other node is
\* the very object of the input
C9_OthersSameObjectAsClaimed ==
    lastCall.op = "update" =>
        LET old == RefsBelow(heap, lastCall.data)
            new == RefsBelow(heap, lastCall.result)
        IN  /\ OpenShapeOf(ValueOf(heap, lastCall.result).items)
                   = OpenShapeOf(lastCall.before.items)
            /\ \A k \in DOMAIN old :
                   IF heap.nodes[old[k].ref].id = lastCall.nodeId
                   THEN FieldsOf(heap.nodes[new[k].ref])
                            = MergeUpdates(FieldsOf(heap.nodes[old[k].ref]),
                                           lastCall.updates)
                   ELSE new[k].ref = old[k].ref

\* C9 (amended): the forest returned has the shape of the input, which is left
\* as it was; the node nodeId is a new object with the updated fields over the
\* children array it had; every other node has the field values it had, and is
\* the very object of the input exactly when it has no children or lies below
\* the node nodeId
C9_OthersSameObject ==
    lastCall.op = "update" =>
        LET old == RefsBelow(heap, lastCall.data)
            new == RefsBelow(heap, lastCall.result)
        IN  /\ ValueOf(heap, lastCall.data) = lastCall.before
            /\ OpenShapeOf(ValueOf(heap, lastCall.result).items)
                   = OpenShapeOf(lastCall.before.items)
            /\ lastCall.result # lastCall.data
            /\ \A k \in DOMAIN old :
                   LET was == heap.nodes[old[k].ref]
                       now == heap.nodes[new[k].ref]
                   IN  IF lastCall.nodeId \in old[k].above
                       THEN new[k].ref = old[k].ref
                       ELSE IF was.id = lastCall.nodeId
                       THEN /\ new[k].ref # old[k].ref
                            /\ now.children = was.children
                            /\ FieldsOf(now) = MergeUpdates(FieldsOf(was),
                                                            lastCall.updates)
                       ELSE /\ FieldsOf(now) = FieldsOf(was)
                            /\ new[k].ref = old[k].ref <=> ~HasChildren(heap, was)

\* an update of a node that changed its status, in a forest that holds another
\* node without children, another node with children, and a node below the
\* updated one
C9_Witness ==
    /\ lastCall.op = "update"
    /\ LET old == RefsBelow(heap, lastCall.data)
           new == RefsBelow(heap, lastCall.result)
       IN  /\ \E k \in DOMAIN old :
                  /\ heap.nodes[old[k].ref].id = lastCall.nodeId
                  /\ heap.nodes[new[k].ref].status = lastCall.updates.status
                  /\ heap.nodes[old[k].ref].status # lastCall.updates.status
           /\ \E k \in DOMAIN old :
                  /\ heap.nodes[old[k].ref].id # lastCall.nodeId
                  /\ lastCall.nodeId \notin old[k].above
                  /\ HasChildren(heap, heap.nodes[old[k].ref])
                  /\ new[k].ref # old[k].ref
           /\ \E k \in DOMAIN old :
                  /\ heap.nodes[old[k].ref].id # lastCall.nodeId
                  /\ lastCall.nodeId \notin old[k].above
                  /\ ~HasChildren(heap, heap.nodes[old[k].ref])
                  /\ new[k].ref = old[k].ref

----------------------------------------------------------------------------
(* The App handlers over pages and treeData: handleCrawl, handleNodeUpdate, *)
(* TreeView.handleMove with handleTreeChange, NodeDetails.handleUndo        *)

\* what getNodePosition returns when no node has the id
NoPosition == [found |-> FALSE]

\* getNodePosition(data, id): the parent and the sibling index of the node
\* with that id in the forest, NoPosition when no node has the id
getNodePosition(h, data, id) ==
    LET E    == Entries(ValueOf(h, data).items, 1, null)
        hits == {k \in DOMAIN E : E[k].node.id = id}
    IN  IF hits = {} THEN NoPosition
        ELSE LET k == CHOOSE x \in hits : \A y \in hits : x <= y
             IN  [found |-> TRUE, parentId |-> E[k].parent,
                  menuOrder |-> Cardinality({j \in 1..(k - 1) :
                                                E[j].parent = E[k].parent})]

\* pages.map(p => p.id === id ? { ...p, ...updates } : p)
PatchPages(pgs, id, updates) ==
    [i \in DOMAIN pgs |->
        IF pgs[i].id = id THEN MergeUpdates(pgs[i], updates) ELSE pgs[i]]

\* supabaseService.getLatestPageHistory(node.id, projectId): the index of the
\* last row saved for the page, 0 when there is none
LatestPageHistory(id) ==
    LET rows == {k \in DOMAIN pageHistory : pageHistory[k].page_id = id}
    IN  IF rows = {} THEN 0 ELSE CHOOSE k \in rows : \A j \in rows : j <= k

InitApp ==
    /\ TreeIdle
    /\ CrawlIdle
    /\ FetchIdle
    /\ NetIdle

\* handleCrawl: setPages(resultPages); setTreeData(buildTreeFromPages(resultPages))
HandleCrawl ==
    /\ treeData = 0
    /\ \E n \in 1..MaxTreePages : \E resultPages \in EditLists(n) :
           LET b == buildTreeFromPages(heap, resultPages)
           IN  /\ pages' = resultPages
               /\ heap' = b.h
               /\ treeData' = b.ref
    /\ lastCall' = [op |-> "handleCrawl"]
    /\ UNCHANGED <<edits, pageHistory>>
    /\ UNCHANGED <<crawlVars, fetchVars, netVars>>

\* handleNodeUpdate(id, updates) with a status patch of the details panel
HandleNodeUpdate ==
    /\ treeData # 0
    /\ edits < MaxEdits
    /\ \E id \in EditIds, updates \in Updates :
           LET updatedTree == updateNodeDataInTree(heap, treeData, id, updates)
           IN  /\ pages' = PatchPages(pages, id, updates)
               /\ heap' = updatedTree.h
               /\ treeData' = updatedTree.ref
               /\ lastCall' = [op |-> "handleNodeUpdate", id |-> id,
                               updates |-> updates]
    /\ edits' = edits + 1
    /\ UNCHANGED pageHistory
    /\ UNCHANGED <<crawlVars, fetchVars, netVars>>

\* TreeView.handleMove of a saved project, then onDataChange = handleTreeChange:
\* setTreeData(newTree); setPages(flattenTree(newTree))
HandleMove ==
    /\ treeData # 0
    /\ edits < MaxEdits
    /\ \E dragId \in EditIds, parentId \in {null} \cup EditIds, index \in Indices :
           LET oldPosition == getNodePosition(heap, treeData, dragId)
               newData     == moveTreeNode(heap, treeData, dragId, parentId, index)
           IN  /\ oldPosition.found
               /\ pageHistory' =
                      IF oldPosition.parentId # parentId
                      THEN Append(pageHistory,
                                  [page_id        |-> dragId,
                                   old_parent_id  |-> oldPosition.parentId,
                                   new_parent_id  |-> parentId,
                                   old_menu_order |-> oldPosition.menuOrder,
                                   new_menu_order |-> index,
                                   undone         |-> FALSE])
                      ELSE pageHistory
               /\ heap' = newData.h
               /\ treeData' = newData.ref
               /\ pages' = flattenTree(newData.h, newData.ref, null)
               /\ lastCall' = [op |-> "handleMove", id |-> dragId,
                               parentId |-> parentId, index |-> index]
    /\ edits' = edits + 1
    /\ UNCHANGED <<crawlVars, fetchVars, netVars>>

\* NodeDetails.handleUndo for a page of the list: onUpdate = handleNodeUpdate
\* with the position of the latest history row; each row is undone once
HandleUndo ==
    /\ treeData # 0
    /\ \E i \in DOMAIN pages :
           LET k == LatestPageHistory(pages[i].id)
           IN  /\ k # 0
               /\ ~pageHistory[k].undone
               /\ LET history == pageHistory[k]
                      updates == [parentId  |-> history.old_parent_id,
                                  menuOrder |-> history.old_menu_order]
                      updatedTree == updateNodeDataInTree(heap, treeData,
                                                          pages[i].id, updates)
                  IN  /\ pages' = PatchPages(pages, pages[i].id, updates)
                      /\ heap' = updatedTree.h
                      /\ treeData' = updatedTree.ref
                      /\ lastCall' = [op |-> "handleUndo", id |-> pages[i].id,
                                      updates |-> updates]
               /\ pageHistory' = [pageHistory EXCEPT ![k].undone = TRUE]
    /\ UNCHANGED edits
    /\ UNCHANGED <<crawlVars, fetchVars, netVars>>

NextApp == HandleCrawl \/ HandleNodeUpdate \/ HandleMove \/ HandleUndo

SpecApp == InitApp /\ [][NextApp]_vars

----------------------------------------------------------------------------
(* Claims about the App handlers *)

\* the (id, parent id) pairs the nesting of treeData gives
TreeParentsOf ==
    LET E == Entries(ValueOf(heap, treeData).items, 1, null)
    IN  {<<E[k].node.id, E[k].parent>> : k \in DOMAIN E}

\* the (id, status) pairs of the nodes of treeData
TreeStatusOf ==
    LET E == Entries(ValueOf(heap, treeData).items, 1, null)
    IN  {<<E[k].node.id, E[k].node.status>> : k \in DOMAIN E}

\* C19: after any sequence of handleNodeUpdate patches and tree moves on a
\* loaded crawl, the flat list and the tree hold the same ids, every page's
\* parentId is the id of its parent node in the tree (null for a root), and
\* the patched status is the same in both
C19_FlatListMatchesTree ==
    treeData # 0 =>
        /\ {pages[i].id : i \in DOMAIN pages} = {e[1] : e \in TreeParentsOf}
        /\ {<<pages[i].id, pages[i].parentId>> : i \in DOMAIN pages} = TreeParentsOf
        /\ {<<pages[i].id, pages[i].status>> : i \in DOMAIN pages} = TreeStatusOf

\* the handlers do keep the two in step as long as no position is undone
C19_InStepWithoutUndo ==
    (treeData # 0 /\ \A k \in DOMAIN pageHistory : ~pageHistory[k].undone)
        => C19_FlatListMatchesTree

----------------------------------------------------------------------------
(* fetchWithFallback: one call *)

\* a text is a sequence of characters
Whitespace == {" ", "\t", "\n"}

\* String.prototype.trim
RECURSIVE TrimStart(_), TrimEnd(_)
TrimStart(text) ==
    IF text # <<>> /\ Head(text) \in Whitespace THEN TrimStart(Tail(text)) ELSE text

TrimEnd(text) ==
    IF text # <<>> /\ text[Len(text)] \in Whitespace
    THEN TrimEnd(SubSeq(text, 1, Len(text) - 1))
    ELSE text

Trim(text) == TrimEnd(TrimStart(text))

\* String.prototype.startsWith for a single character
StartsWith(text, ch) == text # <<>> /\ Head(text) = ch

\* the response bodies a transport may deliver: an object, an array with
\* whitespace around it, a bare number (JSON, but neither object nor array),
\* an HTML page, a text that opens like an object but is no JSON, nothing
Bodies ==
    { <<"{", "}">>, <<" ", "[", "]", "\n">>, <<"4", "2">>,
      <<"<", "p", ">">>, <<"{", "<">>, <<>> }

\* JSON.parse(text) for the texts of Bodies: whitespace around the value is
\* skipped; anything but a JSON value throws
JsonParse(text) ==
    LET t == Trim(text)
    IN  IF t = <<"{", "}">> THEN [thrown |-> FALSE, value |-> "object"]
        ELSE IF t = <<"[", "]">> THEN [thrown |-> FALSE, value |-> "array"]
        ELSE IF t = <<"4", "2">> THEN [thrown |-> FALSE, value |-> "number"]
        ELSE [thrown |-> TRUE, value |-> "none"]

\* safeJson without the test of line 67
AnyShape(trimmed) == TRUE

\* the test of line 67, negated: the trimmed text opens an object or an array
JsonShaped(trimmed) == StartsWith(trimmed, "{") \/ StartsWith(trimmed, "[")

\* safeJson(res, context), lines 62-77
safeJson(res) ==
    IF ~JsonShaped(Trim(res.body)) THEN [thrown |-> TRUE, value |-> "none"]
    ELSE JsonParse(res.body)

\* HTTP status codes a transport may answer with
HttpStatuses == {200, 401, 500}

\* what one fetch call may be answered with: the promise rejects, or it
\* resolves to a response
NetResponses ==
    {[kind |-> "rejected", status |-> 0, body |-> <<>>]} \cup
    [kind : {"response"}, status : HttpStatuses, body : Bodies]

\* Response.ok
ResponseOk(res) == res.status >= 200 /\ res.status <= 299

\* credentials counted as present when a username alone is set
HasUsername(cfg) == cfg.username # ""

\* line 59: !!(config.username && config.appPassword)
HasAuth(cfg) == cfg.username # "" /\ cfg.appPassword # ""

\* getAuthHeaders(config), lines 46-54: whether an Authorization header is built
getAuthHeaders(cfg) == cfg.username # "" /\ cfg.appPassword # ""

\* the second proxy requested whatever the credentials
NeverSkipProxyB(cfg) == FALSE

\* lines 100-102: the call ends before the second proxy
SkipProxyB(cfg) == HasAuth(cfg)

\* one try block of lines 80-89, 92-98, 105-111: the value returned, or
\* nothing when the block fell through or its catch ran
TryBlock(res) ==
    IF res.kind = "rejected" THEN [returned |-> FALSE, value |-> "none"]
    ELSE IF ResponseOk(res)
    THEN LET parsed == safeJson(res)
         IN  [returned |-> ~parsed.thrown, value |-> parsed.value]
    ELSE [returned |-> FALSE, value |-> "none"]

Attempt(transport, withAuth, res) ==
    [transport |-> transport, auth |-> withAuth, res |-> res]

InitNet ==
    /\ netConfig \in [username : {"", "user"}, appPassword : {"", "secret"}]
    /\ npc = "direct"
    /\ attempts = <<>>
    /\ netResult = [kind |-> "none"]
    /\ CrawlIdle
    /\ FetchIdle
    /\ TreeIdle

\* lines 79-89
TryDirect ==
    /\ npc = "direct"
    /\ \E res \in NetResponses :
           LET try == TryBlock(res)
           IN  /\ attempts' = Append(attempts,
                                     Attempt("direct", getAuthHeaders(netConfig), res))
               /\ IF try.returned
                  THEN /\ npc' = "returned"
                       /\ netResult' = [kind |-> "value", value |-> try.value]
                  ELSE /\ npc' = "proxyA"
                       /\ UNCHANGED netResult
    /\ UNCHANGED netConfig
    /\ UNCHANGED <<crawlVars, fetchVars, treeVars>>

\* lines 91-102
TryProxyA ==
    /\ npc = "proxyA"
    /\ \E res \in NetResponses :
           LET try == TryBlock(res)
           IN  /\ attempts' = Append(attempts,
                                     Attempt("proxyA", getAuthHeaders(netConfig), res))
               /\ IF try.returned
                  THEN /\ npc' = "returned"
                       /\ netResult' = [kind |-> "value", value |-> try.value]
                  ELSE IF SkipProxyB(netConfig)
                  THEN /\ npc' = "thrown"
                       /\ netResult' = [kind |-> "error", value |-> "auth"]
                  ELSE /\ npc' = "proxyB"
                       /\ UNCHANGED netResult
    /\ UNCHANGED netConfig
    /\ UNCHANGED <<crawlVars, fetchVars, treeVars>>

\* lines 104-113
TryProxyB ==
    /\ npc = "proxyB"
    /\ \E res \in NetResponses :
           LET try == TryBlock(res)
           IN  /\ attempts' = Append(attempts, Attempt("proxyB", FALSE, res))
               /\ IF try.returned
                  THEN /\ npc' = "returned"
                       /\ netResult' = [kind |-> "value", value |-> try.value]
                  ELSE /\ npc' = "thrown"
                       /\ netResult' = [kind |-> "error", value |-> "all"]
    /\ UNCHANGED netConfig
    /\ UNCHANGED <<crawlVars, fetchVars, treeVars>>

NextNet == TryDirect \/ TryProxyA \/ TryProxyB

SpecNet == InitNet /\ [][NextNet]_vars

----------------------------------------------------------------------------
(* Claims about fetchWithFallback *)

Chain == <<"direct", "proxyA", "proxyB">>

\* both a username and an application password are configured
BothCredentials == netConfig.username # "" /\ netConfig.appPassword # ""

\* the transports the call may use with its configuration
ChainLength == IF BothCredentials THEN 2 ELSE 3

OpensJson(body) ==
    LET t == Trim(body) IN t # <<>> /\ t[1] \in {"{", "["}

\* a transport failed: no response, a status outside 2xx, or a body that is
\* not the text of a JSON object or array
Failed(res) ==
    \/ res.kind = "rejected"
    \/ res.status # 200
    \/ Trim(res.body) \notin {<<"{", "}">>, <<"[", "]">>}

\* C13: the fetch calls go to direct, proxy A, proxy B in this order, each
\* after the one before it failed; the call returns at the first response that
\* did not fail; with both credentials set proxy B is never requested, and no
\* request to proxy B carries the credentials
C13_TransportOrder ==
    /\ Len(attempts) <= 3
    /\ \A k \in 1..Len(attempts) : attempts[k].transport = Chain[k]
    /\ \A k \in 1..(Len(attempts) - 1) : Failed(attempts[k].res)
    /\ attempts # <<>> =>
           (npc = "returned" <=> ~Failed(attempts[Len(attempts)].res))
    /\ BothCredentials => \A k \in 1..Len(attempts) : attempts[k].transport # "proxyB"
    /\ \A k \in 1..Len(attempts) :
           attempts[k].transport = "proxyB" => ~attempts[k].auth

\* a call without credentials returned the answer of proxy B, the third
\* transport it tried
C13_Witness ==
    /\ npc = "returned"
    /\ Len(attempts) = 3
    /\ attempts[3].transport = "proxyB"
    /\ ~BothCredentials
    /\ netResult.kind = "value"

\* C14: a response is accepted only if its trimmed body begins with { or [;
\* after a 2xx response whose body does not, the call has not returned and,
\* unless that transport was the last of the chain, the next one is tried
C14_NonJsonBodyTriesNext ==
    /\ npc = "returned" => OpensJson(attempts[Len(attempts)].res.body)
    /\ \A k \in 1..Len(attempts) :
           (/\ attempts[k].res.kind = "response"
            /\ attempts[k].res.status = 200
            /\ ~OpensJson(attempts[k].res.body))
           => /\ ~(npc = "returned" /\ k = Len(attempts))
              /\ k < ChainLength =>
                     /\ npc # "thrown" \/ Len(attempts) > k
                     /\ Len(attempts) = k => npc = Chain[k + 1]

\* the direct request was answered with status 200 and an HTML page, and the
\* call went on to proxy A
C14_Witness ==
    /\ Len(attempts) >= 2
    /\ attempts[1].res.kind = "response"
    /\ attempts[1].res.status = 200
    /\ attempts[1].res.body = <<"<", "p", ">">>
    /\ attempts[2].transport = "proxyA"

\* C15: the call throws exactly when every transport of its chain was tried
\* and failed: direct and proxy A with both credentials set, and then the
\* error is the authentication error; direct, proxy A and proxy B otherwise,
\* and then the error is the generic one
C15_FailsWhenChainExhausted ==
    /\ npc = "thrown" <=>
           /\ Len(attempts) = ChainLength
           /\ \A k \in 1..Len(attempts) : Failed(attempts[k].res)
    /\ npc = "thrown" =>
           /\ netResult.kind = "error"
           /\ netResult.value = IF BothCredentials THEN "auth" ELSE "all"
    /\ netResult.kind = "error" => npc = "thrown"

\* a call with both credentials threw the authentication error after direct
\* and proxy A had failed
C15_Witness ==
    /\ npc = "thrown"
    /\ BothCredentials
    /\ Len(attempts) = 2
    /\ netResult = [kind |-> "error", value |-> "auth"]

----------------------------------------------------------------------------
(* resolveParentId over the `parent` fields of a list of raw records *)

\* values the `parent` field of a parsed JSON record may hold
RawValues ==
    {Num(0), Num(7), Str("0"), Str(""), Str("7"), Str("00"), JsNull, JsUndef,
     JsFalse, JsTrue, JsArray(0), JsArray(7)}

InitResolve ==
    /\ TreeIdle
    /\ CrawlIdle
    /\ FetchIdle
    /\ NetIdle

\* parentId: resolveParentId(p.parent) for every record of a list
ResolveParents ==
    /\ lastCall.op = "none"
    /\ \E n \in 1..MaxPages : \E raw \in [1..n -> RawValues] :
           lastCall' = [op |-> "resolve", raw |-> raw,
                        resolved |-> [i \in 1..n |-> resolveParentId(raw[i])]]
    /\ UNCHANGED <<heap, pages, treeData, edits, pageHistory>>
    /\ UNCHANGED <<crawlVars, fetchVars, netVars>>

NextResolve == ResolveParents

SpecResolve == InitResolve /\ [][NextResolve]_vars

\* the string form of a raw value
StringForm(raw) ==
    CASE raw = Num(0) -> "0"
      [] raw = Num(7) -> "7"
      [] raw.t = "string" -> raw.s
      [] raw = JsNull -> "null"
      [] raw = JsUndef -> "undefined"
      [] raw = JsFalse -> "false"
      [] raw = JsTrue -> "true"
      [] raw = JsArray(0) -> "0"
      [] raw = JsArray(7) -> "7"

\* C16 as claimed: 0, "0", null, undefined and false resolve to null, every
\* other raw value to its string form and not to null
C16_ResolveAsClaimed ==
    lastCall.op = "resolve" =>
        \A i \in DOMAIN lastCall.raw :
            IF lastCall.raw[i] \in {Num(0), Str("0"), JsNull, JsUndef, JsFalse}
            THEN lastCall.resolved[i] = null
            ELSE /\ lastCall.resolved[i] = StringForm(lastCall.raw[i])
                 /\ lastCall.resolved[i] # null

\* C16 (amended): a raw value resolves to null when it is 0, "0", null,
\* undefined, false, the empty string, or any other value whose string form
\* is "0" (the array [0]); every other raw value resolves to its string form
C16_Resolve ==
    lastCall.op = "resolve" =>
        \A i \in DOMAIN lastCall.raw :
            IF \/ lastCall.raw[i] \in {Num(0), Str("0"), JsNull, JsUndef, JsFalse,
                                       Str("")}
               \/ StringForm(lastCall.raw[i]) = "0"
            THEN lastCall.resolved[i] = null
            ELSE /\ lastCall.resolved[i] = StringForm(lastCall.raw[i])
                 /\ lastCall.resolved[i] # null

\* a list with an empty-string parent and a parent 7 was resolved
C16_Witness ==
    /\ lastCall.op = "resolve"
    /\ \E i, j \in DOMAIN lastCall.raw :
           /\ lastCall.raw[i] = Str("") /\ lastCall.resolved[i] = null
           /\ lastCall.raw[j] = Num(7) /\ lastCall.resolved[j] = "7"

----------------------------------------------------------------------------
(* Claims about the flatten step, the orphan net and the prune *)

\* what buildAndFlattenTree(validItems, null) returned, before the orphan net
FlatPart == buildAndFlattenTree(validItems, null, {}).result

\* following parentId links of `items` from `pid` reaches the id `anc`
RECURSIVE Under(_, _, _, _)
Under(items, pid, anc, steps) ==
    IF pid = anc THEN TRUE
    ELSE IF steps = 0 \/ pid = null \/ pid \notin Ids(items) THEN FALSE
    ELSE Under(items, ParentIn(items, pid), anc, steps - 1)

\* C21: the flatten step emits the items in depth-first pre-order from the
\* items with parentId null: every item is directly followed by its whole
\* subtree, siblings are in ascending menuOrder, and siblings of equal
\* menuOrder are in the order in which the working set got them
C21_PreOrderStableSiblings ==
    Returned =>
        LET F == FlatPart
        IN  /\ SubSeq(sorted, 1, Len(F)) = F
            /\ NoRepeat(F)
            /\ \A k \in 1..Len(F) :
                   /\ \E i \in 1..Len(validItems) : validItems[i] = F[k]
                   /\ F[k].parentId = null \/ F[k].parentId \in Ids(F)
            /\ \A i \in 1..Len(validItems) :
                   (validItems[i].parentId = null \/ validItems[i].parentId \in Ids(F))
                       => validItems[i].id \in Ids(F)
            /\ \A k \in 1..Len(F) :
                   LET D == {j \in 1..Len(F) : Under(F, F[j].parentId, F[k].id, Len(F))}
                   IN  D = (k + 1)..(k + Cardinality(D))
            /\ \A j, k \in 1..Len(F) :
                   (j < k /\ F[j].parentId = F[k].parentId) =>
                       \/ F[j].menuOrder < F[k].menuOrder
                       \/ /\ F[j].menuOrder = F[k].menuOrder
                          /\ IndexIn(allItems, F[j].id) < IndexIn(allItems, F[k].id)

\* a run whose flattened part holds a subtree two levels deep, two siblings of
\* equal menuOrder, and two siblings that the sort put in the other order
C21_Witness ==
    /\ Returned
    /\ LET F == FlatPart
       IN  /\ \E j, k \in 1..Len(F) :
                  /\ j < k /\ F[j].parentId = F[k].parentId
                  /\ F[j].menuOrder = F[k].menuOrder
           /\ \E j, k \in 1..Len(F) :
                  /\ j < k /\ F[j].parentId = F[k].parentId
                  /\ IndexIn(allItems, F[j].id) > IndexIn(allItems, F[k].id)
           /\ \E j, k \in 1..Len(F) :
                  /\ F[k].parentId = F[j].id
                  /\ F[j].parentId # null
                  /\ k < Len(F)

\* the parent references of `items` hold no cycle
Acyclic(items) ==
    \A i \in 1..Len(items) :
        ~Under(items, items[i].parentId, items[i].id, Len(items))

\* the orphan net of lines 332-340 appended something
OrphanNetRan == Len(FlatPart) < Len(validItems)

\* C22 as claimed: when the fetched parent references hold no cycle, every item
\* that survives the prune is emitted by the traversal from the roots, so the
\* orphan net is never executed
C22_OrphanNetOnlyByCycle ==
    (Returned /\ Acyclic(allItems)) => ~OrphanNetRan

\* what does hold: without a cycle the orphan net runs only when the prune
\* kept an item whose parent it dropped
C22_OrphanNetNeedsCycleOrOpenPrune ==
    (Returned /\ Acyclic(allItems) /\ Dangling(validItems) = {}) => ~OrphanNetRan

\* C27 as claimed: the items kept by the prune are closed under the parent
\* relation: every kept item with a parentId has its parent among the kept
\* items, also on a chain A -> B -> missing
C27_PruneClosed ==
    Returned => Dangling(validItems) = {}

----------------------------------------------------------------------------
(* Claims about the rescue rounds *)

\* the entries the last n requests left in a log
LastEntries(log, n) == SubSeq(log, Len(log) - n + 1, Len(log))

\* a request that delivered a record of the crawled site
Accepted(entry) == ~entry.failed /\ SameSite(entry.host)

\* C23: a rescue round merges into the working set exactly the rescued items
\* that were delivered and pass the domain filter, and a second round is
\* started only if the first round merged at least one item; a round in which
\* every rescue failed or was filtered out ends the rescue phase
C23_RescueRoundStep ==
    (rescueIterations' = rescueIterations + 1) =>
        LET asked  == LastEntries(fetchLog', Len(fetchLog') - Len(fetchLog))
            merged == SubSeq(allItems', Len(allItems) + 1, Len(allItems'))
            good   == SelectSeq(asked, Accepted)
        IN  /\ SubSeq(allItems', 1, Len(allItems)) = allItems
            /\ Len(merged) = Len(good)
            /\ \A k \in 1..Len(merged) :
                   merged[k].id = good[k].id /\ merged[k].url = good[k].host
            /\ rescueIterations >= 1 =>
                   /\ Len(rescueLog) = rescueIterations
                   /\ \E e \in {LastEntries(fetchLog, Len(rescueLog[Len(rescueLog)]))[k] :
                                  k \in 1..Len(rescueLog[Len(rescueLog)])} :
                          Accepted(e) /\ e.id \in Ids(allItems)

C23_OnlyAcceptedMergedAndRepeat == [][C23_RescueRoundStep]_vars

\* round 1 merged an item, round 2 asked for its parent and got a record of
\* another host, which was not merged: the rescue phase is over
C23_Witness ==
    /\ pc = "rescue"
    /\ rescueIterations = 2
    /\ Len(rescueLog) = 2
    /\ ~hasNewRescuedItems
    /\ ~fetchLog[Len(fetchLog)].failed
    /\ ~SameSite(fetchLog[Len(fetchLog)].host)
    /\ fetchLog[Len(fetchLog)].id \notin Ids(allItems)

----------------------------------------------------------------------------
(* Claims about the posts step *)

\* the positions of the items of a type in the working set
OfType(type) == {i \in 1..Len(allItems) : allItems[i].type = type}

\* the listed pages: the pages the working set held when the posts were mapped
ListedPages ==
    {i \in OfType("page") : \A j \in OfType("post") : i < j}

----------------------------------------------------------------------------
(* Claims about the order buildTreeFromPages gives the tree *)

\* the number of nodes of a forest value
RECURSIVE SizeOf(_)
SizeOf(items) ==
    IF items = <<>> THEN 0
    ELSE 1 + SizeOf(items[1].children.items) + SizeOf(Tail(items))

\* the siblings of a list are in ascending menuOrder
AscendingMenuOrder(items) ==
    \A i, j \in 1..Len(items) : i < j => items[i].menuOrder <= items[j].menuOrder

\* C26: in the forest buildTreeFromPages returns, the children of every node
\* are in ascending menuOrder, the roots are in descending order of their
\* number of descendants, and roots with the same number of descendants are in
\* ascending menuOrder
C26_ChildrenByMenuOrderRootsByWeight ==
    lastCall.op = "build" =>
        LET roots == ValueOf(heap, treeData).items
            E     == Entries(roots, 1, null)
        IN  /\ \A k \in DOMAIN E : AscendingMenuOrder(E[k].node.children.items)
            /\ \A i, j \in 1..Len(roots) :
                   i < j =>
                       LET ci == SizeOf(roots[i].children.items)
                           cj == SizeOf(roots[j].children.items)
                       IN  \/ ci > cj
                           \/ ci = cj /\ roots[i].menuOrder <= roots[j].menuOrder

\* a root with descendants stands before a root that has none and a smaller
\* menuOrder
C26_Witness ==
    /\ lastCall.op = "build"
    /\ LET roots == ValueOf(heap, treeData).items
       IN  /\ Len(roots) = 2
           /\ SizeOf(roots[1].children.items) = 1
           /\ SizeOf(roots[2].children.items) = 0
           /\ roots[1].menuOrder > roots[2].menuOrder

----------------------------------------------------------------------------
(* Claims about the nodes moveTreeNode keeps *)

\* how many nodes of the pre-order list E carry the id
IdCount(E, id) == Cardinality({k \in DOMAIN E : E[k].node.id = id})

\* C28 as claimed: moveTreeNode neither loses nor duplicates nodes: every id
\* occurs in the returned forest as often as in the forest passed in, also when
\* parentId is the dragged node, one of its descendants or an absent id
C28_MoveKeepsEveryNode ==
    lastCall.op = "move" =>
        LET B == Entries(lastCall.before.items, 1, null)
            R == Entries(ValueOf(heap, lastCall.result).items, 1, null)
        IN  \A id \in EditIds : IdCount(R, id) = IdCount(B, id)

\* what does hold: no id is duplicated, and ids are lost only when the target
\* parent is not found once the dragged subtree is detached
C28_LossOnlyWithoutTarget ==
    lastCall.op = "move" =>
        LET B == Entries(lastCall.before.items, 1, null)
            R == Entries(ValueOf(heap, lastCall.result).items, 1, null)
            n == lastCall.dragId
            p == lastCall.parentId
            below == {id \in EditIds :
                         \E k \in DOMAIN B :
                             /\ B[k].node.id = n
                             /\ HoldsId(<<B[k].node>>, id)}
        IN  /\ \A id \in EditIds : IdCount(R, id) <= IdCount(B, id)
            /\ (p = null \/ (IdCount(B, p) > 0 /\ p \notin below))
                   => \A id \in EditIds : IdCount(R, id) = IdCount(B, id)

----------------------------------------------------------------------------
(* buildGraphFromPages over the pg list the App filters *)

\* ownerId values of a page; "undefined" for a page without owner
OwnerIds == {"undefined", "owner-1"}

\* page.status || 'neutral'
StatusOrNeutral(pg) == IF pg.status = "undefined" THEN "neutral" ELSE pg.status

\* the page lists of a loaded project: every parent is an earlier page, and
\* pages carry the status and owner earlier edits gave them
GraphLists(n) ==
    {[i \in 1..n |-> [id |-> StringOfNat(i),
                      parentId |-> IF f[i].parent = 0 THEN null
                                   ELSE StringOfNat(f[i].parent),
                      status |-> f[i].status, ownerId |-> f[i].ownerId]] :
        f \in {g \in [1..n -> [parent : 0..n, status : {"undefined", "move"},
                               ownerId : OwnerIds]] :
                  \A i \in 1..n : g[i].parent < i}}

\* the filter settings of the App: status filter, owner filter, hideFiltered
FilterSettings ==
    [statuses : {{}, {"neutral"}, {"move"}}, ownerIds : {{}, {"owner-1"}},
     hideFiltered : BOOLEAN]

\* isPageFiltered(page), lines 287-302
isPageFiltered(filters, pg) ==
    LET hasFilters == filters.statuses # {} \/ filters.ownerIds # {}
        byStatus   == filters.statuses = {} \/ StatusOrNeutral(pg) \in filters.statuses
        byOwner    == \/ filters.ownerIds = {}
                      \/ pg.ownerId # "undefined" /\ pg.ownerId \in filters.ownerIds
    IN  IF ~hasFilters THEN FALSE ELSE ~(byStatus /\ byOwner)

\* applyFiltersToPages(pages), lines 304-309
applyFiltersToPages(filters, pgs) ==
    IF filters.hideFiltered
    THEN SelectSeq(pgs, LAMBDA pg : ~isPageFiltered(filters, pg))
    ELSE pgs

\* buildGraphFromPages(pages), lines 12-35; the layout leaves nodes and edges
\* as they are but for the positions
buildGraphFromPages(pgs) ==
    LET withParent == SelectSeq(pgs, LAMBDA pg : ~NoParent(pg.parentId))
    IN  [nodes |-> [i \in 1..Len(pgs) |-> [id |-> pgs[i].id, data |-> pgs[i]]],
         edges |-> [i \in 1..Len(withParent) |->
                       [id     |-> "e" \o withParent[i].parentId \o "-"
                                       \o withParent[i].id,
                        source |-> withParent[i].parentId,
                        target |-> withParent[i].id]]]

InitGraph ==
    /\ heap = EmptyHeap
    /\ \E n \in 1..MaxTreePages : pages \in GraphLists(n)
    /\ treeData = 0
    /\ lastCall = [op |-> "none"]
    /\ edits = 0
    /\ pageHistory = <<>>
    /\ CrawlIdle
    /\ FetchIdle
    /\ NetIdle

\* the effect of lines 311-316 for one setting of the filters
BuildGraph ==
    /\ lastCall.op = "none"
    /\ Len(pages) # 0
    /\ \E filters \in FilterSettings :
           LET filteredPages == applyFiltersToPages(filters, pages)
           IN  lastCall' = [op |-> "graph", filters |-> filters,
                            filteredPages |-> filteredPages,
                            graphData |-> buildGraphFromPages(filteredPages)]
    /\ UNCHANGED <<heap, pages, treeData, edits, pageHistory>>
    /\ UNCHANGED <<crawlVars, fetchVars, netVars>>

NextGraph == BuildGraph

SpecGraph == InitGraph /\ [][NextGraph]_vars

----------------------------------------------------------------------------
(* Claims about the graph *)

\* there is exactly one node per listed page
OneNodePerPage ==
    LET g == lastCall.graphData
    IN  /\ Len(g.nodes) = Len(lastCall.filteredPages)
        /\ \A i \in 1..Len(g.nodes) : g.nodes[i].id = lastCall.filteredPages[i].id

\* C30 as claimed: in every graph the App builds, also when the filter with
\* hideFiltered removed pages first, there is exactly one node per listed page
\* and the source and the target of every edge are ids of nodes of the graph
C30_EdgesJoinNodesOfTheGraph ==
    lastCall.op = "graph" =>
        LET g == lastCall.graphData
        IN  /\ OneNodePerPage
            /\ \A e \in 1..Len(g.edges) :
                   /\ g.edges[e].source \in Ids(g.nodes)
                   /\ g.edges[e].target \in Ids(g.nodes)

\* what does hold: one node per listed page, every edge ends at a node, and
\* every edge starts at a node unless the filter hid pages
C30_EdgesJoinNodesUnlessHidden ==
    lastCall.op = "graph" =>
        LET g == lastCall.graphData
        IN  /\ OneNodePerPage
            /\ \A e \in 1..Len(g.edges) : g.edges[e].target \in Ids(g.nodes)
            /\ Len(lastCall.filteredPages) = Len(pages) =>
                   \A e \in 1..Len(g.edges) : g.edges[e].source \in Ids(g.nodes)

----------------------------------------------------------------------------
(* The rescue rounds, fetch by fetch: the promises of a round are created    *)
(* together, each settles on its own, Promise.all delivers when all settled  *)

\* the working sets the rescue phase starts from: listed pages of the crawled
\* host, each a root or the child of a page outside the listing
RescueStartPages(n, f) ==
    [i \in 1..n |-> RawPage(i, [title |-> "Home", parent |-> f[i].parent,
                                link |-> BaseHost, menu_order |-> f[i].menu_order])]

RescueStartFields ==
    [parent : {Num(0)} \cup {Num(k) : k \in ExtIds}, menu_order : MenuOrders]

\* a promise of the round: the id it fetches, whether it has settled, the value
\* it settled with and its place in the order of completion
Pending(id) == [id |-> id, settled |-> FALSE, value |-> NoItem, at |-> 0]

\* an entry of events: a fetch was issued, a fetch settled (with a value the
\* filter of lines 292-295 accepts or not), the results of a round were merged
Event(kind, round, id, accepted) ==
    [kind |-> kind, round |-> round, id |-> id, accepted |-> accepted]

\* Promise.all resolves as soon as one promise has settled
AnySettled(ps) == \E i \in 1..Len(ps) : ps[i].settled

\* await Promise.all(promises), line 289: every promise of the round has settled
AllSettled(ps) == \A i \in 1..Len(ps) : ps[i].settled

\* the values in the order in which the promises settled
ValuesAsCompleted(ps) ==
    [k \in 1..Len(ps) |-> ps[CHOOSE i \in 1..Len(ps) : ps[i].at = k].value]

\* rescuedResults, line 289: the values in the order of the promises array
PromiseAllValues(ps) == [i \in 1..Len(ps) |-> ps[i].value]

InitRescue ==
    /\ config = [includePages |-> TRUE, includePosts |-> FALSE]
    /\ pc = "rescue"
    /\ \E n \in 1..MaxPages : \E f \in [1..n -> RescueStartFields] :
           /\ allItems = MapPages(RescueStartPages(n, f))
           /\ fetchLog = Listed(RescueStartPages(n, f))
    /\ rescueIterations = 0
    /\ hasNewRescuedItems = TRUE
    /\ rescueLog = <<>>
    /\ validItems = <<>>
    /\ sorted = <<>>
    /\ outcome = "running"
    /\ promises = <<>>
    /\ events = <<>>
    /\ FetchIdle
    /\ NetIdle
    /\ TreeIdle

\* lines 272-288: the loop is entered and the fetch of every missing parent is
\* issued (rescueItem runs up to its first await inside the map call)
IssueRound ==
    /\ pc = "rescue"
    /\ RescueLoopGuard
    /\ rescueIterations' = rescueIterations + 1
    /\ hasNewRescuedItems' = FALSE
    /\ LET missing == MissingParentIds(allItems)
       IN  IF Len(missing) > 0
           THEN /\ promises' = [i \in 1..Len(missing) |-> Pending(missing[i])]
                /\ events' = events \o
                       [i \in 1..Len(missing) |->
                           Event("issue", rescueIterations', missing[i], FALSE)]
                /\ rescueLog' = Append(rescueLog, missing)
                /\ pc' = "await"
           ELSE UNCHANGED <<promises, events, rescueLog, pc>>
    /\ UNCHANGED <<config, allItems, fetchLog, validItems, sorted, outcome>>
    /\ UNCHANGED <<fetchVars, treeVars, netVars>>

\* lines 159-176: the fetch of one pending rescueItem call is answered and the
\* call returns its item or null
SettleOne ==
    /\ pc = "await"
    /\ \E i \in 1..Len(promises) : \E a \in RescueAnswers :
           /\ ~promises[i].settled
           /\ promises' =
                  [promises EXCEPT
                      ![i] = [id      |-> promises[i].id,
                              settled |-> TRUE,
                              value   |-> rescueItem(promises[i].id,
                                              RescueResponse(promises[i].id, a)),
                              at      |-> 1 + Cardinality({j \in 1..Len(promises) :
                                                              promises[j].settled})]]
           /\ events' = Append(events,
                  Event("settle", rescueIterations, promises[i].id,
                        ValidRescued(<<rescueItem(promises[i].id,
                                          RescueResponse(promises[i].id, a))>>) # <<>>))
           /\ fetchLog' = Append(fetchLog,
                                 Requested(promises[i].id, a.link, a.thrown))
    /\ UNCHANGED <<config, pc, allItems, rescueIterations, hasNewRescuedItems,
                   rescueLog, validItems, sorted, outcome>>
    /\ UNCHANGED <<fetchVars, treeVars, netVars>>

\* lines 289-301: Promise.all delivered; the accepted results are merged
MergeRound ==
    /\ pc = "await"
    /\ AllSettled(promises)
    /\ LET rescuedResults == PromiseAllValues(promises)
           validRescued   == ValidRescued(rescuedResults)
       IN  /\ allItems' = allItems \o validRescued
           /\ hasNewRescuedItems' = MergedAny(validRescued)
    /\ events' = Append(events, Event("merge", rescueIterations, "", FALSE))
    /\ promises' = <<>>
    /\ pc' = "rescue"
    /\ UNCHANGED <<config, rescueIterations, rescueLog, fetchLog, validItems,
                   sorted, outcome>>
    /\ UNCHANGED <<fetchVars, treeVars, netVars>>

NextRescue == IssueRound \/ SettleOne \/ MergeRound \/ Finish

SpecRescue == InitRescue /\ [][NextRescue]_vars

----------------------------------------------------------------------------
(* Claims about the order of the rescue fetches *)

\* the positions of the events of a kind and round
EventsOf(kind, round) ==
    {k \in 1..Len(events) : events[k].kind = kind /\ events[k].round = round}

\* C25: the fetches of a round are all issued before any of them settles, and
\* no fetch of round 2 is issued before every fetch of round 1 has settled and
\* the accepted results of round 1 are merged into the working set
C25_RoundsSequentialFetchesConcurrent ==
    /\ \A r \in 1..2 : \A i \in EventsOf("issue", r), s \in EventsOf("settle", r) :
           i < s
    /\ \A k \in EventsOf("issue", 2) :
           /\ \A i \in EventsOf("issue", 1) :
                  \E s \in EventsOf("settle", 1) :
                      s < k /\ events[s].id = events[i].id
           /\ \E m \in EventsOf("merge", 1) :
                  m < k /\ \A s \in EventsOf("settle", 1) : s < m
           /\ \A s \in EventsOf("settle", 1) :
                  events[s].accepted => events[s].id \in Ids(allItems)

\* round 1 issued two fetches that were in flight together and settled in the
\* other order; after the merge round 2 issued a fetch
C25_Witness ==
    /\ EventsOf("issue", 2) # {}
    /\ \E i, j \in EventsOf("issue", 1), s, t \in EventsOf("settle", 1) :
           /\ i < j /\ j < t /\ t < s
           /\ events[s].id = events[i].id
           /\ events[t].id = events[j].id

\* the value the fetch for the id settled with
ValueFor(ps, id) == ps[CHOOSE j \in 1..Len(ps) : ps[j].id = id].value

\* C29: what a round merges is fixed by the working set and by the response
\* each id got, whatever the order in which the fetches of the round settled:
\* the accepted values, in the order in which the working set names the
\* missing ids; the output is computed from the working set alone
C29_MergeStep ==
    /\ (pc = "await" /\ pc' = "rescue") =>
           LET missing == MissingParentIds(allItems)
           IN  allItems' = allItems \o
                   ValidRescued([i \in 1..Len(missing) |-> ValueFor(promises, missing[i])])
    /\ (pc = "rescue" /\ pc' = "done" /\ outcome' = "returned") =>
           sorted' = SortAndFlatten(PruneOrphans(allItems))

C29_CompletionOrderIrrelevant == [][C29_MergeStep]_vars

\* a returned run in which two fetches of a round settled in the other order
\* than issued and both values were merged
C29_Witness ==
    /\ Returned
    /\ \E i, j \in EventsOf("issue", 1), s, t \in EventsOf("settle", 1) :
           /\ i < j /\ t < s
           /\ events[s].id = events[i].id /\ events[s].accepted
           /\ events[t].id = events[j].id /\ events[t].accepted
           /\ IndexIn(sorted, events[i].id) < IndexIn(sorted, events[j].id)

====
